---- MODULE Spec2Model ----
(***************************************************************************)
(* A model of lite-agent's step-loop orchestrator (Runner), its tool-call  *)
(* executor (Agent.handle_tool_calls) and the message-history conversion   *)
(* (convert_new_to_legacy) that the pending-call detection is built on.    *)
(*                                                                         *)
(* The history is the enriched form: a sequence of messages, an assistant  *)
(* message carrying an ordered list of content items (text, tool_call,     *)
(* tool_call_result).  The LLM and the tools are the environment: a        *)
(* completion turn is a sequence of events chosen from a bounded set, a    *)
(* tool invocation either returns or raises.                               *)
(***************************************************************************)
EXTENDS Integers, Sequences, FiniteSets, TLC

(***************************************************************************)
(* Bounds of the model.                                                    *)
(***************************************************************************)
MaxCalls == 2        \* tool calls the LLM requests in one completion turn
MaxSteps == 2        \* largest max_steps a caller passes
MaxRuns == 3         \* Runner.run / Runner.run_continue_stream invocations
MaxWork == 4         \* completion calls plus requested tool calls in one behaviour

None == "None"

(***************************************************************************)
(* The agent tree of the model: Main hands off to A and B.                 *)
(***************************************************************************)
Agents == {"Main", "A", "B"}

handoffs(a) == IF a = "Main" THEN <<"A", "B">> ELSE <<>>

parent(a) == IF a = "Main" THEN None ELSE "Main"

ArgsEmpty == "{}"
ArgsA == "{\"name\": \"A\"}"
ArgsB == "{\"name\": \"B\"}"
\* a name that no agent of the tree bears
ArgsC == "{\"name\": \"C\"}"

\* an argument string that is not JSON, and one that is JSON but no object
ArgsInvalid == "{bad"
ArgsList == "[1]"

\* what json.loads makes of an argument string: it raises JSONDecodeError,
\* or returns a dict, or returns a value of another type
JsonKind(arguments) ==
    CASE arguments = ArgsInvalid -> "invalid"
      [] arguments = ArgsList -> "other"
      [] OTHER -> "object"

\* json.loads(arguments).get("name") for the argument strings of the model
JsonName(arguments) ==
    CASE arguments = ArgsA -> "A"
      [] arguments = ArgsB -> "B"
      [] arguments = ArgsC -> "C"
      [] OTHER -> None

\* what the LLM may request: a tool name with its raw argument string
CallKinds ==
    { [name |-> "get_weather", arguments |-> ArgsEmpty],
      [name |-> "delete_file", arguments |-> ArgsEmpty],
      [name |-> "wait_for_user", arguments |-> ArgsEmpty],
      [name |-> "transfer_to_agent", arguments |-> ArgsA],
      [name |-> "transfer_to_agent", arguments |-> ArgsB],
      [name |-> "transfer_to_agent", arguments |-> ArgsC],
      [name |-> "transfer_to_parent", arguments |-> ArgsEmpty] }

Outcomes == {"ok", "raise"}

\* the tools of the model whose invocation may raise
MayRaise == {"get_weather"}

\* what the LLM has produced so far: completion turns and tool calls
Work(c, n) == c + (n - 1)

VARIABLES
    agent,                 \* Runner.agent: the active agent
    condition,             \* Agent.completion_condition of every agent
    messages,              \* Runner.messages
    current_assistant_message, \* Runner._current_assistant_message
    pc,                    \* position of the _run generator
    steps,                 \* _run: steps
    max_steps,             \* _run: max_steps
    finish_reason,         \* _run: finish_reason
    completion_condition,  \* _run: completion_condition, read once at start
    invoked,               \* registry invocations so far, in order
    yielded,               \* events yielded to the caller so far, in order
    completions,           \* completion calls issued so far
    runTurns,              \* per turn of the current run: the number of its function_call
                           \* events and whether it finalized an assistant message
    runKind,               \* how the current run was started
    nextId,                \* next call id the LLM hands out
    runs,                  \* API invocations so far
    suspended,             \* the last run returned to wait for a confirmation
    error,                 \* exception raised to the caller by the last invocation
    meta_usage,            \* meta.usage of the messages in history: pairs <<index, tokens>>
    includes,              \* the includes argument of the caller: the event types yielded
    twin,                  \* next to a Runner whose caller passes includes: a Runner given
                           \* the same input, model and tool behaviour whose caller passes
                           \* none: [messages, agent, invoked, yielded, completions]
    _current_message,      \* StreamChunkProcessor._current_message
    processing_function,   \* StreamChunkProcessor.processing_function
    yielded_content,       \* StreamChunkProcessor.yielded_content
    yielded_function,      \* StreamChunkProcessor.yielded_function
    fed_chunks,            \* the fragments given to process_chunk so far, in order
    yielded_events,        \* per fragment, the events process_chunk yielded for it
    raised_errors,         \* per fragment, the exception process_chunk raised, if any
    append_log,            \* the messages given to Runner.append_message so far, in order
    append_error,          \* the exception the last Runner.append_message raised
    sent,                  \* the last view sent to the model: [taken, legacy, entries]
    reingested,            \* the history of the Runner the legacy view was appended to
    replay,                \* the last Runner.set_chat_history call: its messages and the
                           \* agent it started from; the number of calls so far
    stream                 \* resp of the completion call in progress: the events to come,
                           \* the events handled, whether the caller iterates it, and the
                           \* number of completion calls so read

runnerVars == <<agent, condition, messages, current_assistant_message, pc, steps,
                max_steps, finish_reason, completion_condition, invoked, yielded,
                completions, runTurns, runKind, nextId, runs, suspended, error,
                meta_usage, includes, twin>>

procVars == <<_current_message, processing_function, yielded_content, yielded_function,
              fed_chunks, yielded_events, raised_errors>>

histVars == <<append_log, append_error, sent, reingested, replay>>

turnVars == <<stream>>

vars == <<runnerVars, procVars, histVars, turnVars>>

(***************************************************************************)
(* Message and content constructors.                                       *)
(***************************************************************************)
AssistantTextContent(text) ==
    [type |-> "text", call_id |-> 0, name |-> "", arguments |-> "", output |-> "", text |-> text]

AssistantToolCall(call_id, name, arguments) ==
    [type |-> "tool_call", call_id |-> call_id, name |-> name, arguments |-> arguments,
     output |-> "", text |-> ""]

AssistantToolCallResult(call_id, output) ==
    [type |-> "tool_call_result", call_id |-> call_id, name |-> "", arguments |-> "",
     output |-> output, text |-> ""]

NewUserMessage == [role |-> "user", content |-> <<>>]
NewSystemMessage == [role |-> "system", content |-> <<>>]

NewAssistantMessage(content) == [role |-> "assistant", content |-> content]

\* Runner._current_assistant_message when no assistant message is in progress
NoMessage == [role |-> "none", content |-> <<>>]

IsAssistant(m) == m.role = "assistant"

\* Tool-call arguments are a str or a dict (AssistantToolCall.arguments).
\* A str is written as it is; the dict that json.loads makes of the JSON
\* text s is written Dict(s).
Dict(s) == "dict:" \o s

\* json.loads of the arguments of a tool call
json_loads(s) == Dict(s)

\* Python's str() of tool-call arguments: a str is itself, a dict is
\* rendered by repr, with single quotes
str(arguments) ==
    IF arguments = Dict(ArgsEmpty) THEN "{}"
    ELSE IF arguments = Dict(ArgsA) THEN "{'name': 'A'}"
    ELSE IF arguments = Dict(ArgsB) THEN "{'name': 'B'}"
    ELSE IF arguments = Dict(ArgsC) THEN "{'name': 'C'}"
    ELSE arguments

Legacy(type, call_id, name, arguments, output, content) ==
    [type |-> type, call_id |-> call_id, name |-> name, arguments |-> arguments,
     output |-> output, content |-> content]

(***************************************************************************)
(* convert_new_to_legacy: the wire view of the history.  An assistant      *)
(* message becomes one AgentAssistantMessage (its text parts) followed by  *)
(* one function_call / function_call_output entry per content item, in     *)
(* content order.                                                          *)
(***************************************************************************)
TextParts(content) ==
    LET texts == SelectSeq(content, LAMBDA item : item.type = "text")
    IN  [i \in 1..Len(texts) |-> texts[i].text]

LegacyOfItem(item) ==
    IF item.type = "tool_call"
    THEN Legacy("function_call", item.call_id, item.name, str(item.arguments), "", <<>>)
    ELSE Legacy("function_call_output", item.call_id, "", "", item.output, <<>>)

LegacyOfMessage(message) ==
    IF message.role \in {"user", "system"}
    THEN << Legacy(message.role, 0, "", "", "", <<>>) >>
    ELSE LET items == SelectSeq(message.content, LAMBDA item : item.type # "text")
         IN  << Legacy("assistant", 0, "", "", "", TextParts(message.content)) >>
             \o [i \in 1..Len(items) |-> LegacyOfItem(items[i])]

RECURSIVE convert_new_to_legacy(_)
convert_new_to_legacy(msgs) ==
    IF msgs = <<>> THEN <<>>
    ELSE LegacyOfMessage(Head(msgs)) \o convert_new_to_legacy(Tail(msgs))

(***************************************************************************)
(* Runner._find_pending_function_calls: walk the legacy view from the end, *)
(* collect function calls, discard the id of every output met, stop at the *)
(* first assistant message; keep the collected calls whose id survived.    *)
(***************************************************************************)
RECURSIVE PendingWalk(_, _, _, _)
PendingWalk(legacy, i, function_calls, call_ids) ==
    IF i = 0 \/ legacy[i].type = "assistant"
    THEN SelectSeq(function_calls, LAMBDA fc : fc.call_id \in call_ids)
    ELSE IF legacy[i].type = "function_call"
    THEN PendingWalk(legacy, i - 1, Append(function_calls, legacy[i]),
                     call_ids \cup {legacy[i].call_id})
    ELSE IF legacy[i].type = "function_call_output"
    THEN PendingWalk(legacy, i - 1, function_calls, call_ids \ {legacy[i].call_id})
    ELSE PendingWalk(legacy, i - 1, function_calls, call_ids)

_find_pending_function_calls(msgs) ==
    LET legacy == convert_new_to_legacy(msgs)
    IN  PendingWalk(legacy, Len(legacy), <<>>, {})

\* Runner._convert_function_calls_to_tool_calls keeps id, name, arguments and order
_convert_function_calls_to_tool_calls(function_calls) ==
    [i \in 1..Len(function_calls) |->
        [id |-> function_calls[i].call_id, name |-> function_calls[i].name,
         arguments |-> function_calls[i].arguments, index |-> i - 1]]

(***************************************************************************)
(* The agent: its tool registry, the confirmation flags and the executor.  *)
(***************************************************************************)
\* names in Agent.fc.function_registry: the agent's tools, and the transfer
\* and sentinel tools its configuration adds
Registered(a, cond) ==
    {"get_weather", "delete_file"}
        \cup (IF handoffs(a) # <<>> THEN {"transfer_to_agent"} ELSE {})
        \cup (IF parent(a) # None THEN {"transfer_to_parent"} ELSE {})
        \cup (IF cond[a] = "call" THEN {"wait_for_user"} ELSE {})

\* fc.get_tool_meta(name)["require_confirm"]
RequireConfirm(name) == name = "delete_file"

\* Agent.list_require_confirm_tools
\* a confirmation check that looks at the first call of the batch only
list_require_confirm_tools_first(a, cond, tool_calls) ==
    SelectSeq(SubSeq(tool_calls, 1, 1),
              LAMBDA tc : tc.name \in Registered(a, cond) /\ RequireConfirm(tc.name))

list_require_confirm_tools(a, cond, tool_calls) ==
    SelectSeq(tool_calls,
              LAMBDA tc : tc.name \in Registered(a, cond) /\ RequireConfirm(tc.name))

\* fc.call_function_async: the value returned, or the message of the
\* exception raised; a name that is not registered cannot be called
ToolResult(a, cond, tc, outcome) ==
    IF tc.name \notin Registered(a, cond) THEN [raised |-> TRUE, content |-> "Function not found"]
    ELSE IF tc.name \in MayRaise /\ outcome[tc.id] = "raise" THEN [raised |-> TRUE, content |-> "boom"]
    ELSE [raised |-> FALSE, content |-> "result"]

FunctionCallOutputEvent(tool_call_id, name, content) ==
    [type |-> "function_call_output", call_id |-> tool_call_id, name |-> name,
     arguments |-> "", content |-> content]

\* the ways the invocations of a batch may end
OutcomesOf(tool_calls) ==
    LET ids == {tool_calls[i].id : i \in 1..Len(tool_calls)}
        free == {tool_calls[i].id : i \in {j \in 1..Len(tool_calls) : tool_calls[j].name \in MayRaise}}
    IN  {f \in [ids -> Outcomes] : \A id \in ids \ free : f[id] = "ok"}

\* what the caller sees of an event
Yield(chunk) == [type |-> chunk.type, call_id |-> chunk.call_id, content |-> chunk.content]

\* Agent.handle_tool_calls: every call of the batch is invoked, in the order
\* of the batch; an exception becomes the content of the call's output.
\* The result is the list of invocations with the output event of each.

\* an executor that gives up the batch at the first call that raises
RECURSIVE handle_tool_calls_abort(_, _, _, _)
handle_tool_calls_abort(a, cond, tool_calls, outcome) ==
    IF tool_calls = <<>> THEN <<>>
    ELSE LET tc == Head(tool_calls)
             r == ToolResult(a, cond, tc, outcome)
         IN  << [call |-> tc, raised |-> r.raised, value |-> r.content,
                 event |-> FunctionCallOutputEvent(tc.id, tc.name, r.content)] >>
             \o (IF r.raised THEN <<>>
                 ELSE handle_tool_calls_abort(a, cond, Tail(tool_calls), outcome))

RECURSIVE handle_tool_calls(_, _, _, _)
handle_tool_calls(a, cond, tool_calls, outcome) ==
    IF tool_calls = <<>> THEN <<>>
    ELSE LET tc == Head(tool_calls)
             r == ToolResult(a, cond, tc, outcome)
         IN  << [call |-> tc, raised |-> r.raised, value |-> r.content,
                 event |-> FunctionCallOutputEvent(tc.id, tc.name, r.content)] >>
             \o handle_tool_calls(a, cond, Tail(tool_calls), outcome)

(***************************************************************************)
(* Runner: history updates.  The state a handler works on is the record    *)
(* [messages, agent, invoked, yielded, includes, error]: error is the      *)
(* exception that left the handler, includes the caller's event filter.    *)
(***************************************************************************)
\* an append_message that gives every tool result an assistant message of
\* its own
append_message_new_turn(msgs, call_id, output) ==
    Append(msgs, NewAssistantMessage(<< AssistantToolCallResult(call_id, output) >>))

\* Runner.append_message of a function_call_output: attach to the last
\* assistant message, or create an assistant message holding only the result
append_message(msgs, call_id, output) ==
    IF msgs # <<>> /\ IsAssistant(msgs[Len(msgs)])
    THEN [msgs EXCEPT ![Len(msgs)].content = Append(@, AssistantToolCallResult(call_id, output))]
    ELSE Append(msgs, NewAssistantMessage(<< AssistantToolCallResult(call_id, output) >>))

\* DEFAULT_INCLUDES, and the values of includes callers pass in the model
DEFAULT_INCLUDES ==
    {"completion_raw", "usage", "function_call", "function_call_output", "content_delta",
     "function_call_delta", "assistant_message"}

IncludesValues == { {"function_call_output"}, {"assistant_message", "function_call", "usage"} }

\* the state a handler starts on
HandlerState(msgs, a, inv, out, inc) ==
    [messages |-> msgs, agent |-> a, invoked |-> inv, yielded |-> out, includes |-> inc,
     error |-> None]

\* an entry of the invocation log: the call, whether the registry raised,
\* and the value returned or the message of the exception
Invocation(tc, raised, value) ==
    [call_id |-> tc.id, name |-> tc.name, raised |-> raised, value |-> value]

\* a transfer handler that answers the call and leaves the agent in place
_handle_agent_transfer_stay(st, tc) ==
    [st EXCEPT !.messages = append_message(@, tc.id, "Transferring to agent"),
               !.invoked = Append(@, Invocation(tc, FALSE, "Transferring to agent"))]

\* Runner._handle_agent_transfer
_handle_agent_transfer(st, tc) ==
    LET target_agent_name == JsonName(tc.arguments)
        found == \E i \in 1..Len(handoffs(st.agent)) : handoffs(st.agent)[i] = target_agent_name
    IN  IF JsonKind(tc.arguments) = "invalid"
        THEN [st EXCEPT !.messages = append_message(@, tc.id, "Failed to parse transfer arguments")]
        ELSE IF JsonKind(tc.arguments) = "other"
        THEN [st EXCEPT !.error = "AttributeError"]
        ELSE IF target_agent_name = None
        THEN [st EXCEPT !.messages = append_message(@, tc.id, "No target agent name provided")]
        ELSE IF handoffs(st.agent) = <<>>
        THEN [st EXCEPT !.messages = append_message(@, tc.id, "Current agent has no handoffs configured")]
        ELSE IF ~found
        THEN [st EXCEPT !.messages = append_message(@, tc.id, "Target agent not found in handoffs")]
        ELSE [st EXCEPT !.messages = append_message(@, tc.id, "Transferring to agent"),
                        !.invoked = Append(@, Invocation(tc, FALSE, "Transferring to agent")),
                        !.agent = target_agent_name]

\* a parent transfer that answers nothing when there is no parent
_handle_parent_transfer_silent(st, tc) ==
    IF parent(st.agent) = None
    THEN st
    ELSE [st EXCEPT !.messages = append_message(@, tc.id, "Transferring back to parent"),
                    !.invoked = Append(@, Invocation(tc, FALSE, "Transferring back to parent")),
                    !.agent = parent(st.agent)]

\* Runner._handle_parent_transfer
_handle_parent_transfer(st, tc) ==
    IF parent(st.agent) = None
    THEN [st EXCEPT !.messages = append_message(@, tc.id, "Current agent has no parent to transfer back to")]
    ELSE [st EXCEPT !.messages = append_message(@, tc.id, "Transferring back to parent"),
                    !.invoked = Append(@, Invocation(tc, FALSE, "Transferring back to parent")),
                    !.agent = parent(st.agent)]

\* the additional transfer calls of a batch: answered, not executed
RECURSIVE AlreadyExecuted(_, _)
AlreadyExecuted(st, calls) ==
    IF calls = <<>> THEN st
    ELSE AlreadyExecuted(
            [st EXCEPT !.messages = append_message(@, Head(calls).id,
                                                   "Transfer already executed by previous call")],
            Tail(calls))

\* a loop that attaches to history only the outputs the caller asked to see
RECURSIVE ConsumeToolChunks_if_included(_, _)
ConsumeToolChunks_if_included(st, chunks) ==
    IF chunks = <<>> THEN st
    ELSE LET c == Head(chunks)
             msgs == st.messages
             seen == c.event.type \in st.includes
         IN  ConsumeToolChunks_if_included(
                [st EXCEPT !.invoked = Append(@, Invocation(c.call, c.raised, c.value)),
                           !.yielded = IF seen THEN Append(@, Yield(c.event)) ELSE @,
                           !.messages =
                               IF seen /\ msgs # <<>> /\ IsAssistant(msgs[Len(msgs)])
                               THEN [msgs EXCEPT ![Len(msgs)].content =
                                        Append(@, AssistantToolCallResult(c.event.call_id,
                                                                          c.event.content))]
                               ELSE msgs],
                Tail(chunks))

\* the loop over Agent.handle_tool_calls in Runner._handle_tool_calls: the
\* output is yielded when its type is among includes, and attached to the
\* last message if it is an assistant's
RECURSIVE ConsumeToolChunks(_, _)
ConsumeToolChunks(st, chunks) ==
    IF chunks = <<>> THEN st
    ELSE LET c == Head(chunks)
             msgs == st.messages
             appended ==
                 IF msgs # <<>> /\ IsAssistant(msgs[Len(msgs)])
                 THEN [msgs EXCEPT ![Len(msgs)].content =
                          Append(@, AssistantToolCallResult(c.event.call_id, c.event.content))]
                 ELSE msgs
         IN  ConsumeToolChunks(
                [st EXCEPT !.invoked = Append(@, Invocation(c.call, c.raised, c.value)),
                           !.yielded = IF c.event.type \in st.includes
                                       THEN Append(@, Yield(c.event)) ELSE @,
                           !.messages = appended],
                Tail(chunks))

TransferCalls(tool_calls) == SelectSeq(tool_calls, LAMBDA tc : tc.name = "transfer_to_agent")

ReturnParentCalls(tool_calls) == SelectSeq(tool_calls, LAMBDA tc : tc.name = "transfer_to_parent")

\* a handler that goes on to the executor after the transfer calls
_handle_tool_calls_then_rest(st, cond, tool_calls, outcome) ==
    IF tool_calls = <<>> THEN st
    ELSE LET rest == SelectSeq(tool_calls,
                               LAMBDA tc : tc.name \notin {"transfer_to_agent", "transfer_to_parent"})
             after ==
                 IF TransferCalls(tool_calls) # <<>>
                 THEN AlreadyExecuted(_handle_agent_transfer(st, Head(TransferCalls(tool_calls))),
                                      Tail(TransferCalls(tool_calls)))
                 ELSE IF ReturnParentCalls(tool_calls) # <<>>
                 THEN AlreadyExecuted(_handle_parent_transfer(st, Head(ReturnParentCalls(tool_calls))),
                                      Tail(ReturnParentCalls(tool_calls)))
                 ELSE st
         IN  ConsumeToolChunks(after, handle_tool_calls(st.agent, cond, rest, outcome))

\* Runner._handle_tool_calls
_handle_tool_calls(st, cond, tool_calls, outcome) ==
    IF tool_calls = <<>> THEN st
    ELSE IF TransferCalls(tool_calls) # <<>>
    THEN LET first == _handle_agent_transfer(st, Head(TransferCalls(tool_calls)))
         IN  IF first.error # None THEN first
             ELSE AlreadyExecuted(first, Tail(TransferCalls(tool_calls)))
    ELSE IF ReturnParentCalls(tool_calls) # <<>>
    THEN AlreadyExecuted(_handle_parent_transfer(st, Head(ReturnParentCalls(tool_calls))),
                         Tail(ReturnParentCalls(tool_calls)))
    ELSE ConsumeToolChunks(st, handle_tool_calls(st.agent, cond, tool_calls, outcome))

(***************************************************************************)
(* Runner._run: one completion turn.                                       *)
(***************************************************************************)
AssistantMessageEvent ==
    [type |-> "assistant_message", call_id |-> 0, name |-> "", arguments |-> "",
     content |-> "hello"]

FunctionCallEvent(call_id, kind) ==
    [type |-> "function_call", call_id |-> call_id, name |-> kind.name,
     arguments |-> kind.arguments, content |-> ""]

\* Runner._start_assistant_message
_start_assistant_message(content) == NewAssistantMessage(<< AssistantTextContent(content) >>)

\* Runner._add_to_current_assistant_message
_add_to_current_assistant_message(cur, content_item) ==
    LET started == IF cur = NoMessage THEN _start_assistant_message("") ELSE cur
    IN  [started EXCEPT !.content = Append(@, content_item)]

\* the body of "async for chunk in resp": the current assistant message
\* after the events of one turn
RECURSIVE ConsumeEvents(_, _)
ConsumeEvents(cur, events) ==
    IF events = <<>> THEN cur
    ELSE LET chunk == Head(events)
         IN  IF chunk.type = "assistant_message"
             THEN ConsumeEvents(_start_assistant_message(chunk.content), Tail(events))
             ELSE IF chunk.type = "function_call"
             THEN ConsumeEvents(
                     _add_to_current_assistant_message(
                         cur, AssistantToolCall(chunk.call_id, chunk.name, chunk.arguments)),
                     Tail(events))
             ELSE ConsumeEvents(cur, Tail(events))

\* Runner._finalize_assistant_message
_finalize_assistant_message(msgs, cur) == IF cur # NoMessage THEN Append(msgs, cur) ELSE msgs

\* is_finish() of Runner._run
\* a completion test that looks at the finish reason under either condition
is_finish_stop_only(cc, fr, msgs) == fr = "stop"

\* a completion test that asks for the sentinel call under either condition
is_finish_call_only(cc, fr, msgs) ==
    LET function_calls == _find_pending_function_calls(msgs)
    IN  \E i \in 1..Len(function_calls) : function_calls[i].name = "wait_for_user"

is_finish(cc, fr, msgs) ==
    IF cc = "call"
    THEN LET function_calls == _find_pending_function_calls(msgs)
         IN  \E i \in 1..Len(function_calls) : function_calls[i].name = "wait_for_user"
    ELSE fr = "stop"

\* a loop condition that allows one turn more than max_steps
LoopGuard_inclusive(cc, fr, msgs, n, max) == ~is_finish(cc, fr, msgs) /\ n <= max

\* the condition of the while loop of Runner._run
LoopGuard(cc, fr, msgs, n, max) == ~is_finish(cc, fr, msgs) /\ n < max

\* UsageEvent of a completion turn; the token counts of the n-th completion
\* call of a behaviour are written u<n>
Tokens(n) == << "u1", "u2", "u3", "u4", "u5", "u6", "u7", "u8" >>[n]

UsageChunk(tokens) ==
    [type |-> "usage", call_id |-> 0, name |-> "", arguments |-> "", content |-> tokens]

\* Runner._run on a usage event: the usage of the last assistant message in
\* self.messages is set
RecordUsage(usage, msgs, tokens) ==
    LET A == { i \in 1..Len(msgs) : IsAssistant(msgs[i]) }
    IN  IF A = {} THEN usage
        ELSE LET last == CHOOSE i \in A : \A j \in A : j <= i
             IN  { u \in usage : u[1] # last } \cup { << last, tokens >> }

\* the event sequences a completion turn may deliver
TurnEvents(am, calls, firstId) ==
    (IF am THEN << AssistantMessageEvent >> ELSE <<>>)
        \o [i \in 1..Len(calls) |-> FunctionCallEvent(firstId + i - 1, calls[i])]

Min(a, b) == IF a <= b THEN a ELSE b

\* the tool calls of one turn, at most k of them
CallSeqs(k) == UNION { [1..n -> CallKinds] : n \in 0..Min(MaxCalls, k) }

(***************************************************************************)
(* StreamChunkProcessor.  A fragment is a ModelResponseStream with at most *)
(* one choice.  An absent text delta and an empty one are both "" (the     *)
(* code tests their truth value only), an absent list of tool-call deltas  *)
(* and an empty one are both <<>>.                                         *)
(***************************************************************************)
MaxChunks == 4

\* ChatCompletionDeltaToolCall: an entry with an id opens a call, an entry
\* without one continues the call at its index
DeltaToolCall(id, name, arguments, index) ==
    [id |-> id, name |-> name, arguments |-> arguments, index |-> index]

ModelResponseStream(role, content, tool_calls, finish) ==
    [usage |-> FALSE, choices |-> TRUE, role |-> role, content |-> content,
     tool_calls |-> tool_calls, finish_reason |-> finish]

\* the fragments a completion stream is made of in the model
Fragments ==
    { ModelResponseStream("assistant", "", <<>>, None),
      ModelResponseStream("assistant", "a", <<>>, None),
      ModelResponseStream(None, "a", <<>>, None),
      ModelResponseStream(None, "b", <<>>, None),
      ModelResponseStream(None, "", <<>>, None),
      ModelResponseStream(None, "", << DeltaToolCall("c1", "foo", "x", 0) >>, None),
      ModelResponseStream(None, "", << DeltaToolCall("c1", "foo", None, 0) >>, None),
      ModelResponseStream(None, "", << DeltaToolCall("c2", "foo", "x", 1) >>, None),
      ModelResponseStream(None, "", << DeltaToolCall("c2", "bar", "x", 1) >>, None),
      ModelResponseStream(None, "", << DeltaToolCall(None, "", "y", 0) >>, None),
      ModelResponseStream(None, "", << DeltaToolCall(None, "", "y", 1) >>, None),
      ModelResponseStream(None, "", << DeltaToolCall(None, "", "", 0) >>, None),
      ModelResponseStream("assistant", "", << DeltaToolCall("c1", "foo", "x", 0) >>, None),
      ModelResponseStream("assistant", "a", << DeltaToolCall("c1", "foo", "x", 0) >>, None),
      ModelResponseStream(None, "a", << DeltaToolCall("c1", "foo", "x", 0) >>, None),
      ModelResponseStream(None, "", << DeltaToolCall("c1", "foo", "x", 0),
                                       DeltaToolCall("c2", "bar", "y", 1) >>, None),
      ModelResponseStream(None, "", <<>>, "stop"),
      ModelResponseStream(None, "", <<>>, "tool_calls"),
      [usage |-> TRUE, choices |-> FALSE, role |-> None, content |-> "",
       tool_calls |-> <<>>, finish_reason |-> None],
      [usage |-> FALSE, choices |-> FALSE, role |-> None, content |-> "",
       tool_calls |-> <<>>, finish_reason |-> None] }

\* AssistantMessage, and the value of _current_message before there is one
AssistantMessage(role, content, tool_calls) ==
    [role |-> role, content |-> content, tool_calls |-> tool_calls]

NoCurrent == AssistantMessage(None, "", <<>>)

\* ToolCall with its ToolCallFunction
ToolCall(id, name, arguments, index) ==
    [id |-> id, name |-> name, arguments |-> arguments, index |-> index]

\* the events of the processor, as one record shape
Event(type, text, call_id, name, arguments) ==
    [type |-> type, text |-> text, call_id |-> call_id, name |-> name, arguments |-> arguments]

CompletionRawEvent == Event("completion_raw", "", None, "", "")
UsageEvent == Event("usage", "", None, "", "")
ContentDeltaEvent(delta) == Event("content_delta", delta, None, "", "")
AssistantMessageOf(m) == Event("assistant_message", m.content, None, "", "")
FunctionCallOf(tc) ==
    Event("function_call", "", tc.id, tc.name, IF tc.arguments = None THEN "" ELSE tc.arguments)
FunctionCallDeltaEvent(tc, arguments_delta) ==
    Event("function_call_delta", "", tc.id, tc.name,
          IF arguments_delta = None THEN "" ELSE arguments_delta)

\* StreamChunkProcessor.is_initialized
is_initialized(m) == m # NoCurrent

\* StreamChunkProcessor.initialize_message
initialize_message(m, chunk) ==
    IF chunk.role # "assistant" THEN m ELSE AssistantMessage(chunk.role, "", <<>>)

\* a continuation that replaced the arguments instead of extending them
UpdateToolCall_replace(m, call) ==
    IF call.id # None
    THEN IF is_initialized(m)
         THEN [m EXCEPT !.tool_calls =
                  Append(@, ToolCall(call.id, call.name, call.arguments, call.index))]
         ELSE m
    ELSE IF is_initialized(m) /\ 0 <= call.index /\ call.index < Len(m.tool_calls)
    THEN IF call.arguments # None /\ call.arguments # ""
         THEN [m EXCEPT !.tool_calls[call.index + 1].arguments = call.arguments]
         ELSE m
    ELSE m

\* StreamChunkProcessor.update_tool_calls, one entry
UpdateToolCall(m, call) ==
    IF call.id # None
    THEN IF is_initialized(m)
         THEN [m EXCEPT !.tool_calls =
                  Append(@, ToolCall(call.id, call.name, call.arguments, call.index))]
         ELSE m
    ELSE IF is_initialized(m) /\ 0 <= call.index /\ call.index < Len(m.tool_calls)
    THEN IF call.arguments # None /\ call.arguments # ""
         THEN [m EXCEPT !.tool_calls[call.index + 1].arguments =
                  (IF @ = None THEN "" ELSE @) \o call.arguments]
         ELSE m
    ELSE m

\* StreamChunkProcessor.update_tool_calls
RECURSIVE update_tool_calls(_, _)
update_tool_calls(m, tool_calls) ==
    IF tool_calls = <<>> THEN m
    ELSE update_tool_calls(UpdateToolCall(m, Head(tool_calls)), Tail(tool_calls))

\* The processor while it works on one fragment: its fields (m is
\* _current_message), the events yielded so far, the exception raised.
ProcState(m, pf, yc, yf) ==
    [m |-> m, pf |-> pf, yc |-> yc, yf |-> yf, out |-> <<>>, exc |-> None]

\* StreamChunkProcessor.current_message raises when there is no message
NoMessageError == "ValueError"

LastCall(m) == m.tool_calls[Len(m.tool_calls)]

\* process_chunk: a fragment with tool-call deltas makes the processor
\* yield the assistant message, once, and note the function it works on
AnnounceMessage(p, chunk) ==
    IF chunk.tool_calls = <<>> THEN p
    ELSE LET q == IF p.yc THEN p
                  ELSE IF ~is_initialized(p.m)
                  THEN [p EXCEPT !.yc = TRUE, !.exc = NoMessageError]
                  ELSE [p EXCEPT !.yc = TRUE, !.out = Append(@, AssistantMessageOf(p.m))]
             tool_name == chunk.tool_calls[1].name
         IN  IF q.exc # None THEN q
             ELSE IF tool_name # None /\ tool_name # ""
             THEN [q EXCEPT !.pf = tool_name]
             ELSE q

\* process_chunk: the last accumulated call is yielded when the processor
\* has moved on to another function and has not yielded that name yet
SettleLastCall(p) ==
    IF /\ p.exc = None
       /\ is_initialized(p.m)
       /\ p.m.tool_calls # <<>>
       /\ p.pf # LastCall(p.m).name
       /\ LastCall(p.m).name \notin p.yf
    THEN [p EXCEPT !.out = Append(@, FunctionCallOf(LastCall(p.m))),
                   !.yf = @ \cup {LastCall(p.m).name}]
    ELSE p

\* process_chunk: initialization, then the text delta
AccumulateContent(p, chunk) ==
    IF p.exc # None THEN p
    ELSE LET m == IF is_initialized(p.m) THEN p.m ELSE initialize_message(p.m, chunk)
         IN  IF chunk.content # "" /\ is_initialized(m)
             THEN [p EXCEPT !.m = [m EXCEPT !.content = @ \o chunk.content],
                            !.out = Append(@, ContentDeltaEvent(chunk.content))]
             ELSE [p EXCEPT !.m = m]

\* process_chunk: the tool-call deltas and the function_call_delta event
AccumulateToolCalls(p, chunk) ==
    IF p.exc # None \/ chunk.tool_calls = <<>> THEN p
    ELSE LET m == update_tool_calls(p.m, chunk.tool_calls)
         IN  IF ~is_initialized(m)
             THEN [p EXCEPT !.exc = NoMessageError]
             ELSE IF m.tool_calls # <<>>
             THEN [p EXCEPT !.m = m,
                            !.out = Append(@, FunctionCallDeltaEvent(LastCall(m),
                                                   chunk.tool_calls[1].arguments))]
             ELSE [p EXCEPT !.m = m]

\* process_chunk: the fragment with the finish reason
Finish(p, chunk) ==
    IF p.exc # None \/ chunk.finish_reason = None THEN p
    ELSE IF ~is_initialized(p.m)
    THEN [p EXCEPT !.exc = NoMessageError]
    ELSE LET q == IF p.m.tool_calls # <<>>
                  THEN [p EXCEPT !.out = Append(@, FunctionCallOf(LastCall(p.m)))]
                  ELSE p
         IN  IF q.yc THEN q
             ELSE [q EXCEPT !.yc = TRUE, !.out = Append(@, AssistantMessageOf(q.m))]

\* StreamChunkProcessor.process_chunk
process_chunk(p, chunk) ==
    LET raw == [p EXCEPT !.out = << CompletionRawEvent >>]
    IN  IF chunk.usage THEN [raw EXCEPT !.out = Append(@, UsageEvent)]
        ELSE IF ~chunk.choices THEN raw
        ELSE Finish(
                AccumulateToolCalls(
                    AccumulateContent(SettleLastCall(AnnounceMessage(raw, chunk)), chunk),
                    chunk),
                chunk)

(***************************************************************************)
(* Runner.append_message and the two conversions between the enriched      *)
(* history and its legacy view.  A message given to append_message is a    *)
(* NewMessage, a RunnerMessage (a legacy entry) or a dict.  System         *)
(* messages and the parts of a user message are left out.                  *)
(***************************************************************************)
MaxAppends == 3      \* Runner.append_message calls in one behaviour
MaxIds == 2          \* call ids a caller of append_message uses

\* " ".join(text_parts)
RECURSIVE JoinText(_)
JoinText(parts) ==
    IF parts = <<>> THEN ""
    ELSE IF Len(parts) = 1 THEN parts[1]
    ELSE parts[1] \o " " \o JoinText(Tail(parts))

IsFunctionEntry(entry) == entry.type \in {"function_call", "function_call_output"}

\* convert_legacy_to_new: the content item of a function entry
ItemOfLegacy(entry) ==
    IF entry.type = "function_call"
    THEN AssistantToolCall(entry.call_id, entry.name, entry.arguments)
    ELSE AssistantToolCallResult(entry.call_id, entry.output)

\* convert_legacy_to_new: the function entries that follow an assistant
\* entry, up to the first entry of another kind
RECURSIVE FollowingEntries(_)
FollowingEntries(entries) ==
    IF entries = <<>> \/ ~IsFunctionEntry(Head(entries)) THEN <<>>
    ELSE << Head(entries) >> \o FollowingEntries(Tail(entries))

\* convert_legacy_to_new
RECURSIVE convert_legacy_to_new(_)
convert_legacy_to_new(entries) ==
    IF entries = <<>> THEN <<>>
    ELSE LET message == Head(entries)
         IN  IF message.type = "user"
             THEN << NewUserMessage >> \o convert_legacy_to_new(Tail(entries))
             ELSE IF message.type = "system"
             THEN << NewSystemMessage >> \o convert_legacy_to_new(Tail(entries))
             ELSE IF message.type = "assistant"
             THEN LET following == FollowingEntries(Tail(entries))
                      text == JoinText(message.content)
                  IN  << NewAssistantMessage(
                            (IF text # "" THEN << AssistantTextContent(text) >> ELSE <<>>)
                               \o [i \in 1..Len(following) |-> ItemOfLegacy(following[i])]) >>
                      \o convert_legacy_to_new(SubSeq(entries, Len(following) + 2, Len(entries)))
             ELSE convert_legacy_to_new(Tail(entries))

\* Runner.append_message of a function call: attach to the last assistant
\* message, or create an assistant message holding only the call
append_tool_call(msgs, call_id, name, arguments) ==
    IF msgs # <<>> /\ IsAssistant(msgs[Len(msgs)])
    THEN [msgs EXCEPT ![Len(msgs)].content = Append(@, AssistantToolCall(call_id, name, arguments))]
    ELSE Append(msgs, NewAssistantMessage(<< AssistantToolCall(call_id, name, arguments) >>))

\* a message given to append_message.  form is "new", "legacy" or "dict";
\* kind is the class of a NewMessage, the role or type of a legacy entry,
\* the value of a dict's "role" or else of its "type" (None when the dict
\* has neither); content is the text of a legacy entry or of a dict, as
\* its parts; items are the content items of a NewMessage or the tool
\* calls of a dict with role assistant, their arguments as JSON text.
Message(form, kind, call_id, name, arguments, output, content, items) ==
    [form |-> form, kind |-> kind, call_id |-> call_id, name |-> name, arguments |-> arguments,
     output |-> output, content |-> content, items |-> items]

\* the messages callers give to append_message in the model
AppendInputs ==
    { Message("new", "user", 0, "", "", "", <<>>, <<>>),
      Message("new", "assistant", 0, "", "", "", <<>>, << AssistantTextContent("hello") >>),
      Message("legacy", "user", 0, "", "", "", <<>>, <<>>),
      Message("legacy", "assistant", 0, "", "", "", << "hello" >>, <<>>),
      Message("legacy", "assistant", 0, "", "", "", <<>>, <<>>),
      Message("dict", "user", 0, "", "", "", <<>>, <<>>),
      Message("dict", "system", 0, "", "", "", <<>>, <<>>),
      Message("dict", "assistant", 0, "", "", "", <<>>,
              << AssistantToolCall(1, "get_weather", ArgsA) >>),
      Message("dict", "tool", 1, "", "", "result", <<>>, <<>>),
      Message("dict", None, 1, "get_weather", ArgsA, "", <<>>, <<>>) }
    \cup { Message(form, "function_call", id, "get_weather", ArgsA, "", <<>>, <<>>) :
               form \in {"legacy", "dict"}, id \in 1..MaxIds }
    \cup { Message(form, "function_call_output", id, "", "", "result", <<>>, <<>>) :
               form \in {"legacy", "dict"}, id \in 1..MaxIds }

\* the legacy entry a RunnerMessage is
LegacyOf(message) ==
    Legacy(message.kind, message.call_id, message.name, message.arguments, message.output,
           message.content)

\* the NewMessage a message of form "new" is
NewMessageOf(message) ==
    IF message.kind = "user" THEN NewUserMessage ELSE NewAssistantMessage(message.items)

\* Runner.append_message, dict with role assistant: the text, then the
\* tool calls with their arguments parsed
AssistantOfDict(message) ==
    NewAssistantMessage(
        (IF JoinText(message.content) # ""
         THEN << AssistantTextContent(JoinText(message.content)) >> ELSE <<>>)
        \o [i \in 1..Len(message.items) |->
               AssistantToolCall(message.items[i].call_id, message.items[i].name,
                                 json_loads(message.items[i].arguments))])

\* an append_message that takes any dict for a user message
AppendMessage_lenient(msgs, message) ==
    [messages |-> Append(msgs, NewUserMessage), error |-> None]

\* Runner.append_message: the history afterwards and the exception raised
AppendMessage(msgs, message) ==
    IF message.form = "new"
    THEN [messages |-> Append(msgs, NewMessageOf(message)), error |-> None]
    ELSE IF message.kind = "function_call_output"
    THEN [messages |-> append_message(msgs, message.call_id, message.output), error |-> None]
    ELSE IF message.kind = "function_call"
    THEN [messages |-> append_tool_call(msgs, message.call_id, message.name, message.arguments),
          error |-> None]
    ELSE IF message.form = "legacy"
    THEN [messages |-> msgs \o convert_legacy_to_new(<< LegacyOf(message) >>), error |-> None]
    ELSE IF message.kind = "user"
    THEN [messages |-> Append(msgs, NewUserMessage), error |-> None]
    ELSE IF message.kind = "system"
    THEN [messages |-> Append(msgs, NewSystemMessage), error |-> None]
    ELSE IF message.kind = "assistant"
    THEN [messages |-> Append(msgs, AssistantOfDict(message)), error |-> None]
    ELSE [messages |-> msgs, error |-> "ValueError"]

\* the legacy view appended, entry by entry, to the history of a Runner
RECURSIVE AppendAll(_, _)
AppendAll(msgs, entries) ==
    IF entries = <<>> THEN msgs
    ELSE AppendAll(
            AppendMessage(msgs, Message("legacy", Head(entries).type, Head(entries).call_id,
                                        Head(entries).name, Head(entries).arguments,
                                        Head(entries).output, Head(entries).content, <<>>)).messages,
            Tail(entries))

\* an entry of the legacy view as the message given back to the Runner
WireMessage(entry) ==
    Message("legacy", entry.type, entry.call_id, entry.name, entry.arguments, entry.output,
            entry.content, <<>>)

\* Runner._find_agent_by_name, the walk up the parents: the first ancestor
\* that hands off to target_name gives the agent
RECURSIVE FindAmongAncestors(_, _)
FindAmongAncestors(current, target_name) ==
    IF parent(current) = None THEN None
    ELSE IF \E i \in 1..Len(handoffs(parent(current))) :
               handoffs(parent(current))[i] = target_name
    THEN target_name
    ELSE FindAmongAncestors(parent(current), target_name)

\* Runner._find_agent_by_name
_find_agent_by_name(root_agent, target_name) ==
    IF \E i \in 1..Len(handoffs(root_agent)) : handoffs(root_agent)[i] = target_name
    THEN target_name
    ELSE FindAmongAncestors(root_agent, target_name)

\* the agent tracked after a message, and the exception tracking raised
Tracked(a, e) == [agent |-> a, error |-> e]

\* a tracking that looks for the target among the handoffs of the current
\* agent only
_handle_transfer_to_agent_tracking_declared(arguments, current_agent) ==
    IF JsonKind(arguments) = "invalid" THEN Tracked(current_agent, None)
    ELSE IF JsonKind(arguments) = "other" THEN Tracked(current_agent, "AttributeError")
    ELSE IF \E i \in 1..Len(handoffs(current_agent)) :
               handoffs(current_agent)[i] = JsonName(arguments)
    THEN Tracked(JsonName(arguments), None)
    ELSE Tracked(current_agent, None)

\* Runner._handle_transfer_to_agent_tracking: JSONDecodeError is caught,
\* the AttributeError of a JSON value without get is not
_handle_transfer_to_agent_tracking(arguments, current_agent) ==
    IF JsonKind(arguments) = "invalid" THEN Tracked(current_agent, None)
    ELSE IF JsonKind(arguments) = "other" THEN Tracked(current_agent, "AttributeError")
    ELSE IF JsonName(arguments) = None THEN Tracked(current_agent, None)
    ELSE IF _find_agent_by_name(current_agent, JsonName(arguments)) # None
    THEN Tracked(_find_agent_by_name(current_agent, JsonName(arguments)), None)
    ELSE Tracked(current_agent, None)

\* Runner._handle_transfer_to_parent_tracking
_handle_transfer_to_parent_tracking(current_agent) ==
    IF parent(current_agent) # None THEN Tracked(parent(current_agent), None)
    ELSE Tracked(current_agent, None)

\* Runner._track_agent_transfer_in_message: only a dict whose type is
\* function_call and an AgentFunctionToolCallMessage are looked at
_track_agent_transfer_in_message(message, current_agent) ==
    IF message.form \in {"dict", "legacy"} /\ message.kind = "function_call"
    THEN IF message.name = "transfer_to_agent"
         THEN _handle_transfer_to_agent_tracking(message.arguments, current_agent)
         ELSE IF message.name = "transfer_to_parent"
         THEN _handle_transfer_to_parent_tracking(current_agent)
         ELSE Tracked(current_agent, None)
    ELSE Tracked(current_agent, None)

\* the loop of Runner.set_chat_history: every message is appended, then
\* tracked; an exception ends the loop
RECURSIVE TrackAll(_, _, _)
TrackAll(msgs, current_agent, given) ==
    IF given = <<>> THEN [messages |-> msgs, agent |-> current_agent, error |-> None]
    ELSE LET r == AppendMessage(msgs, Head(given))
             t == _track_agent_transfer_in_message(Head(given), current_agent)
         IN  IF r.error # None
             THEN [messages |-> r.messages, agent |-> current_agent, error |-> r.error]
             ELSE IF t.error # None
             THEN [messages |-> r.messages, agent |-> current_agent, error |-> t.error]
             ELSE TrackAll(r.messages, t.agent, Tail(given))

\* Runner.set_chat_history on a Runner whose agent is active: the history,
\* the agent and the exception afterwards; root_agent None means the
\* agent of the Runner
set_chat_history(active, given, root_agent) ==
    LET r == TrackAll(<<>>, IF root_agent # None THEN root_agent ELSE active, given)
    IN  [messages |-> r.messages,
         agent |-> IF r.error = None THEN r.agent ELSE active,
         error |-> r.error]

\* Agent._convert_responses_to_completions_format: the function_call
\* entries that follow an assistant entry without a gap
RECURSIVE FollowingCalls(_)
FollowingCalls(entries) ==
    IF entries = <<>> \/ Head(entries).type # "function_call" THEN <<>>
    ELSE << Head(entries) >> \o FollowingCalls(Tail(entries))

\* an entry of the completions format
CompletionEntry(role, tool_calls, tool_call_id, content) ==
    [role |-> role, tool_calls |-> tool_calls, tool_call_id |-> tool_call_id, content |-> content]

\* Agent._convert_responses_to_completions_format
RECURSIVE _convert_responses_to_completions_format(_)
_convert_responses_to_completions_format(entries) ==
    IF entries = <<>> THEN <<>>
    ELSE LET message == Head(entries)
         IN  IF message.type = "assistant"
             THEN LET calls == FollowingCalls(Tail(entries))
                  IN  << CompletionEntry("assistant",
                            [i \in 1..Len(calls) |->
                               [id |-> calls[i].call_id, name |-> calls[i].name,
                                arguments |-> calls[i].arguments, index |-> i - 1]],
                            0, "") >>
                      \o _convert_responses_to_completions_format(
                             SubSeq(entries, Len(calls) + 2, Len(entries)))
             ELSE IF message.type = "function_call_output"
             THEN << CompletionEntry("tool", <<>>, message.call_id, message.output) >>
                      \o _convert_responses_to_completions_format(Tail(entries))
             ELSE IF message.type = "function_call"
             THEN _convert_responses_to_completions_format(Tail(entries))
             ELSE << CompletionEntry(message.type, <<>>, 0, "") >>
                      \o _convert_responses_to_completions_format(Tail(entries))

TypeOK ==
    /\ agent \in Agents
    /\ pc \in {"idle", "loop", "tools"}
    /\ steps \in 0..(MaxSteps + 1)
    /\ finish_reason \in {None, "stop", "tool_calls"}
    /\ nextId \in 1..MaxWork

InitRunner ==
    /\ agent = "Main"
    /\ condition \in { [a \in Agents |-> IF a = "Main" THEN c ELSE IF a = "A" THEN "stop" ELSE "call"] :
                          c \in {"stop", "call"} }
    /\ messages = <<>>
    /\ current_assistant_message = NoMessage
    /\ pc = "idle"
    /\ steps = 0
    /\ max_steps = 0
    /\ finish_reason = None
    /\ completion_condition = "stop"
    /\ invoked = <<>>
    /\ yielded = <<>>
    /\ completions = 0
    /\ runTurns = <<>>
    /\ runKind = None
    /\ nextId = 1
    /\ runs = 0
    /\ suspended = FALSE
    /\ error = None
    /\ meta_usage = {}
    /\ twin = [messages |-> <<>>, agent |-> "Main", invoked |-> <<>>, yielded |-> <<>>,
               completions |-> 0]
    /\ _current_message = NoCurrent
    /\ processing_function = None
    /\ yielded_content = FALSE
    /\ yielded_function = {}
    /\ fed_chunks = <<>>
    /\ yielded_events = <<>>
    /\ raised_errors = <<>>
    /\ append_log = <<>>
    /\ append_error = None
    /\ sent = [taken |-> FALSE, legacy |-> <<>>, entries |-> <<>>]
    /\ reingested = <<>>
    /\ replay = [given |-> <<>>, start |-> None, calls |-> 0]
    /\ stream = [resp |-> <<>>, received |-> <<>>, open |-> FALSE, turn |-> 0]

\* the caller passes no includes: _normalize_includes gives the default
Init == InitRunner /\ includes = DEFAULT_INCLUDES

\* Runner.run with a string input: the user message is appended and _run starts
Run ==
    /\ UNCHANGED <<procVars, histVars, turnVars>>
    /\ pc = "idle"
    /\ runs < MaxRuns
    /\ Work(completions, nextId) < MaxWork
    /\ \E ms \in 1..MaxSteps : max_steps' = ms
    /\ messages' = Append(messages, NewUserMessage)
    /\ steps' = 0
    /\ finish_reason' = None
    /\ completion_condition' = condition[agent]
    /\ pc' = "loop"
    /\ runTurns' = <<>>
    /\ runKind' = "run"
    /\ runs' = runs + 1
    /\ suspended' = FALSE
    /\ error' = None
    /\ twin' = IF includes = DEFAULT_INCLUDES THEN twin
               ELSE [twin EXCEPT !.messages = Append(@, NewUserMessage)]
    /\ UNCHANGED <<agent, condition, current_assistant_message, invoked, yielded, completions, nextId,
                   meta_usage, includes>>

\* one pass of the while loop up to _finalize_assistant_message: the
\* completion call, its events (the stream of every completion call ends
\* with a usage event), the finalized assistant message
CompletionTurn ==
    /\ UNCHANGED <<procVars, histVars, turnVars>>
    /\ pc = "loop"
    /\ LoopGuard(completion_condition, finish_reason, messages, steps, max_steps)
    /\ Work(completions, nextId) < MaxWork
    /\ completions' = completions + 1
    /\ \E am \in BOOLEAN, calls \in CallSeqs(MaxWork - Work(completions, nextId) - 1) :
          /\ am \/ calls = <<>>
          /\ LET events == TurnEvents(am, calls, nextId)
                               \o << UsageChunk(Tokens(completions + 1)) >>
                 cur == ConsumeEvents(current_assistant_message, events)
                 all == [i \in 1..Len(events) |-> Yield(events[i])]
             IN  /\ yielded' = yielded \o SelectSeq(all, LAMBDA y : y.type \in includes)
                 /\ twin' = IF includes = DEFAULT_INCLUDES THEN twin
                            ELSE [twin EXCEPT
                                    !.messages = _finalize_assistant_message(
                                                     @, ConsumeEvents(current_assistant_message,
                                                                      events)),
                                    !.yielded = @ \o all,
                                    !.completions = @ + 1]
                 /\ meta_usage' = RecordUsage(meta_usage, messages, Tokens(completions + 1))
                 /\ messages' = _finalize_assistant_message(messages, cur)
                 /\ current_assistant_message' = NoMessage
                 /\ runTurns' = Append(runTurns,
                        [calls |-> Len(calls), message |-> cur # NoMessage,
                         sentinel |-> \E i \in 1..Len(calls) : calls[i].name = "wait_for_user"])
                 /\ nextId' = nextId + Len(calls)
    /\ pc' = "tools"
    /\ UNCHANGED <<agent, condition, steps, max_steps, finish_reason, completion_condition,
                   invoked, runKind, runs, suspended, error, includes>>

\* the generator of _run is exhausted: its locals are gone
Exhausted ==
    /\ pc' = "idle"
    /\ steps' = 0
    /\ max_steps' = 0
    /\ finish_reason' = None
    /\ completion_condition' = "stop"
    /\ runTurns' = <<>>
    /\ runKind' = None

\* the rest of the pass: pending calls, the confirmation gate, the tool calls
ToolPhase ==
    /\ UNCHANGED <<procVars, histVars, turnVars>>
    /\ pc = "tools"
    /\ LET pending_function_calls == _find_pending_function_calls(messages)
           tool_calls == _convert_function_calls_to_tool_calls(pending_function_calls)
           twin_calls == _convert_function_calls_to_tool_calls(
                             _find_pending_function_calls(twin.messages))
       IN  IF pending_function_calls # <<>>
                /\ list_require_confirm_tools(agent, condition, tool_calls) # <<>>
           THEN /\ Exhausted
                /\ suspended' = TRUE
                /\ UNCHANGED <<agent, messages, invoked, yielded, error, twin>>
           ELSE \E outcome \in OutcomesOf(tool_calls) :
                   LET st == _handle_tool_calls(
                                 HandlerState(messages, agent, invoked, yielded, includes),
                                 condition, tool_calls, outcome)
                       tw == _handle_tool_calls(
                                 HandlerState(twin.messages, twin.agent, twin.invoked,
                                              twin.yielded, DEFAULT_INCLUDES),
                                 condition, twin_calls, outcome)
                   IN  /\ messages' = st.messages
                       /\ agent' = st.agent
                       /\ invoked' = st.invoked
                       /\ yielded' = st.yielded
                       /\ error' = st.error
                       /\ twin' = IF includes = DEFAULT_INCLUDES THEN twin
                                  ELSE [twin EXCEPT !.messages = tw.messages,
                                                    !.agent = tw.agent,
                                                    !.invoked = tw.invoked,
                                                    !.yielded = tw.yielded]
                       /\ IF st.error # None
                          THEN /\ Exhausted
                               /\ UNCHANGED suspended
                          ELSE /\ finish_reason' = IF pending_function_calls # <<>>
                                                   THEN "tool_calls" ELSE "stop"
                               /\ steps' = steps + 1
                               /\ pc' = "loop"
                               /\ UNCHANGED <<suspended, max_steps, completion_condition,
                                              runTurns, runKind>>
    /\ UNCHANGED <<condition, current_assistant_message, completions, nextId, runs,
                   meta_usage, includes>>

\* the while loop of _run ends
RunReturn ==
    /\ UNCHANGED <<procVars, histVars, turnVars>>
    /\ pc = "loop"
    /\ ~LoopGuard(completion_condition, finish_reason, messages, steps, max_steps)
    /\ Exhausted
    /\ UNCHANGED <<agent, condition, messages, current_assistant_message, invoked, yielded,
                   completions, nextId, runs, suspended, error, meta_usage, includes, twin>>

\* Runner.run_continue_stream
ContinueStream ==
    /\ UNCHANGED <<procVars, histVars, turnVars>>
    /\ pc = "idle"
    /\ runs < MaxRuns
    /\ Work(completions, nextId) < MaxWork
    /\ runs' = runs + 1
    /\ suspended' = FALSE
    /\ LET pending_function_calls == _find_pending_function_calls(messages)
           tool_calls == _convert_function_calls_to_tool_calls(pending_function_calls)
           twin_calls == _convert_function_calls_to_tool_calls(
                             _find_pending_function_calls(twin.messages))
           Started(a) ==
               /\ \E ms \in 1..MaxSteps : max_steps' = ms
               /\ steps' = 0
               /\ finish_reason' = None
               /\ completion_condition' = condition[a]
               /\ runTurns' = <<>>
               /\ runKind' = "continue"
               /\ pc' = "loop"
       IN  IF pending_function_calls # <<>>
           THEN \E outcome \in OutcomesOf(tool_calls) :
                   LET st == _handle_tool_calls(
                                 HandlerState(messages, agent, invoked, yielded, includes),
                                 condition, tool_calls, outcome)
                       tw == _handle_tool_calls(
                                 HandlerState(twin.messages, twin.agent, twin.invoked,
                                              twin.yielded, DEFAULT_INCLUDES),
                                 condition, twin_calls, outcome)
                   IN  /\ messages' = st.messages
                       /\ agent' = st.agent
                       /\ invoked' = st.invoked
                       /\ yielded' = st.yielded
                       /\ error' = st.error
                       /\ twin' = IF includes = DEFAULT_INCLUDES THEN twin
                                  ELSE [twin EXCEPT !.messages = tw.messages,
                                                    !.agent = tw.agent,
                                                    !.invoked = tw.invoked,
                                                    !.yielded = tw.yielded]
                       /\ IF st.error # None THEN Exhausted ELSE Started(st.agent)
           ELSE IF messages = <<>> \/ ~IsAssistant(messages[Len(messages)])
           THEN /\ error' = "ValueError"
                /\ Exhausted
                /\ UNCHANGED <<agent, messages, invoked, yielded, twin>>
           ELSE /\ Started(agent)
                /\ error' = None
                /\ UNCHANGED <<agent, messages, invoked, yielded, twin>>
    /\ UNCHANGED <<condition, current_assistant_message, completions, nextId, meta_usage,
                   includes>>

Next == Run \/ CompletionTurn \/ ToolPhase \/ RunReturn \/ ContinueStream

Spec == Init /\ [][Next]_vars

(***************************************************************************)
(* A completion stream given to one StreamChunkProcessor, fragment by      *)
(* fragment.                                                               *)
(***************************************************************************)
\* One call of process_chunk, iterated to its end.  An exception leaves
\* the generator and the stream handler around it: no fragment follows.
ProcessChunk ==
    /\ Len(fed_chunks) < MaxChunks
    /\ \A i \in 1..Len(raised_errors) : raised_errors[i] = None
    /\ \E chunk \in Fragments :
          LET p == process_chunk(
                       ProcState(_current_message, processing_function,
                                 yielded_content, yielded_function),
                       chunk)
          IN  /\ _current_message' = p.m
              /\ processing_function' = p.pf
              /\ yielded_content' = p.yc
              /\ yielded_function' = p.yf
              /\ fed_chunks' = Append(fed_chunks, chunk)
              /\ yielded_events' = Append(yielded_events, p.out)
              /\ raised_errors' = Append(raised_errors, p.exc)
    /\ UNCHANGED <<runnerVars, histVars, turnVars>>

InitStream == Init /\ condition["Main"] = "stop"

NextStream == ProcessChunk

SpecStream == InitStream /\ [][NextStream]_vars

(***************************************************************************)
(* A history built with Runner.append_message, sent to the model and       *)
(* appended again to an empty history.                                     *)
(***************************************************************************)
\* Runner.append_message(message)
AppendMessageCall ==
    /\ Len(append_log) < MaxAppends
    /\ \E message \in AppendInputs :
          LET r == AppendMessage(messages, message)
          IN  /\ messages' = r.messages
              /\ append_error' = r.error
              /\ append_log' = Append(append_log, message)
    /\ sent' = [taken |-> FALSE, legacy |-> <<>>, entries |-> <<>>]
    /\ reingested' = <<>>
    /\ replay' = replay
    /\ UNCHANGED <<agent, condition, current_assistant_message, pc, steps, max_steps,
                   finish_reason, completion_condition, invoked, yielded, completions, runTurns,
                   runKind, nextId, runs, suspended, error, meta_usage, includes, twin,
                   procVars, turnVars>>

\* Runner.legacy_messages handed to Agent.prepare_messages
SendHistory ==
    /\ ~sent.taken
    /\ sent' = [taken |-> TRUE, legacy |-> convert_new_to_legacy(messages),
                entries |-> _convert_responses_to_completions_format(
                                convert_new_to_legacy(messages))]
    /\ UNCHANGED <<runnerVars, procVars, append_log, append_error, reingested, replay, turnVars>>

\* the legacy view appended to an empty history, one append_message call
\* for each entry
Reingest ==
    /\ sent.taken
    /\ reingested = <<>>
    /\ reingested' = AppendAll(<<>>, sent.legacy)
    /\ reingested' # <<>>
    /\ UNCHANGED <<runnerVars, procVars, append_log, append_error, sent, replay, turnVars>>

InitHistory == Init /\ condition["Main"] = "stop"

NextHistory == AppendMessageCall \/ SendHistory \/ Reingest

SpecHistory == InitHistory /\ [][NextHistory]_vars

(***************************************************************************)
(* Runner._handle_agent_transfer on the transfer_to_agent call of a turn   *)
(* just finalized, for every kind of argument string.                      *)
(***************************************************************************)
MaxTransfers == 3      \* transfer_to_agent calls handled in one behaviour

\* the argument strings the LLM may give to transfer_to_agent
TransferArguments == {ArgsA, ArgsB, ArgsC, ArgsEmpty, ArgsInvalid, ArgsList}

\* a turn that requests one transfer_to_agent call is finalized, and the
\* call is given to _handle_agent_transfer
TransferTurn ==
    /\ nextId <= MaxTransfers
    /\ \E arguments \in TransferArguments :
          LET tc == [id |-> nextId, name |-> "transfer_to_agent", arguments |-> arguments,
                     index |-> 0]
              turn == NewAssistantMessage(
                          << AssistantTextContent("hello"),
                             AssistantToolCall(nextId, "transfer_to_agent", arguments) >>)
              st == _handle_agent_transfer(
                        HandlerState(Append(messages, turn), agent, invoked, yielded, includes),
                        tc)
          IN  /\ messages' = st.messages
              /\ agent' = st.agent
              /\ invoked' = st.invoked
              /\ error' = st.error
    /\ nextId' = nextId + 1
    /\ UNCHANGED <<condition, current_assistant_message, pc, steps, max_steps, finish_reason,
                   completion_condition, yielded, completions, runTurns, runKind, runs,
                   suspended, meta_usage, includes, twin, procVars, histVars, turnVars>>

InitTransfer == Init /\ condition["Main"] = "stop"

NextTransfer == TransferTurn

SpecTransfer == InitTransfer /\ [][NextTransfer]_vars

(***************************************************************************)
(* Runner.set_chat_history on histories that hold transfer calls in the    *)
(* forms append_message accepts.                                           *)
(***************************************************************************)
MaxGiven == 3          \* messages of a history given to set_chat_history
MaxReplays == 2        \* Runner.set_chat_history calls in one behaviour

\* the messages of the histories given in the model: a user message, an
\* assistant message of the new format that holds an answered transfer
\* call, a tool output, and transfer calls as dicts and as
\* AgentFunctionToolCallMessage objects
ReplayInputs ==
    { Message("dict", "user", 0, "", "", "", <<>>, <<>>),
      Message("new", "assistant", 0, "", "", "", <<>>,
              << AssistantTextContent("hello"),
                 AssistantToolCall(1, "transfer_to_agent", ArgsA),
                 AssistantToolCallResult(1, "Transferring to agent") >>),
      Message("dict", "function_call_output", 1, "", "", "result", <<>>, <<>>),
      Message("dict", "function_call", 1, "transfer_to_parent", ArgsEmpty, "", <<>>, <<>>) }
    \cup { Message("dict", "function_call", 1, "transfer_to_agent", arguments, "", <<>>, <<>>) :
               arguments \in {ArgsA, ArgsB, ArgsList} }
    \cup { Message("legacy", "function_call", 1, "transfer_to_agent", ArgsA, "", <<>>, <<>>) }

GivenHistories == UNION { [1..n -> ReplayInputs] : n \in 0..MaxGiven }

\* Runner.set_chat_history(given, root_agent)
SetChatHistory ==
    /\ replay.calls < MaxReplays
    /\ \E given \in GivenHistories, root_agent \in {None, "Main"} :
          LET r == set_chat_history(agent, given, root_agent)
          IN  /\ messages' = r.messages
              /\ agent' = r.agent
              /\ error' = r.error
              /\ replay' = [given |-> given,
                            start |-> IF root_agent # None THEN root_agent ELSE agent,
                            calls |-> replay.calls + 1]
    /\ UNCHANGED <<condition, current_assistant_message, pc, steps, max_steps, finish_reason,
                   completion_condition, invoked, yielded, completions, runTurns, runKind,
                   nextId, runs, suspended, meta_usage, includes, twin, procVars, append_log,
                   append_error, sent, reingested, turnVars>>

InitReplay == Init /\ condition["Main"] = "stop"

NextReplay == SetChatHistory

SpecReplay == InitReplay /\ [][NextReplay]_vars

(***************************************************************************)
(* Runner._run event by event: the caller of Runner.run(user_input,        *)
(* max_steps=1) iterates the generator, and may stop at any event it is    *)
(* given; the stream of the completion call may raise.  Events arrive in   *)
(* the order of the output items of the response.                          *)
(***************************************************************************)
MaxEvents == 3         \* assistant_message and function_call events of one completion call
MaxTurns == 2          \* completion calls in one behaviour

\* the text of the assistant_message events of the n-th completion call
TurnText(n) == << "t1", "t2", "t3", "t4" >>[n]

\* the events of a completion call: types gives their order, the function
\* calls take the ids from firstId on
EventsOf(types, n, firstId) ==
    [i \in 1..Len(types) |->
        IF types[i] = "assistant_message"
        THEN [AssistantMessageEvent EXCEPT !.content = TurnText(n)]
        ELSE FunctionCallEvent(
                 firstId + Cardinality({j \in 1..(i - 1) : types[j] = "function_call"}),
                 [name |-> "get_weather", arguments |-> ArgsEmpty])]

EventOrders == UNION { [1..n -> {"assistant_message", "function_call"}] : n \in 0..MaxEvents }

\* Runner.run(user_input, max_steps=1) up to the completion call: the user
\* message is appended, the loop is entered, resp is obtained
StartTurn ==
    /\ ~stream.open
    /\ stream.turn < MaxTurns
    /\ messages' = Append(messages, NewUserMessage)
    /\ completions' = completions + 1
    /\ error' = None
    /\ \E types \in EventOrders :
          /\ stream' = [resp |-> EventsOf(types, stream.turn + 1, nextId), received |-> <<>>,
                        open |-> TRUE, turn |-> stream.turn + 1]
          /\ nextId' = nextId + Cardinality({j \in 1..Len(types) : types[j] = "function_call"})
    /\ UNCHANGED <<agent, condition, current_assistant_message, pc, steps, max_steps,
                   finish_reason, completion_condition, invoked, yielded, runTurns, runKind,
                   runs, suspended, meta_usage, includes, twin, procVars, histVars>>

\* one pass of "async for chunk in resp": the chunk is yielded and the
\* caller asks for the next one, so the chunk is handled
NextChunk ==
    /\ stream.open
    /\ stream.resp # <<>>
    /\ LET chunk == Head(stream.resp)
       IN  /\ yielded' = IF chunk.type \in includes THEN Append(yielded, Yield(chunk))
                          ELSE yielded
           /\ current_assistant_message' =
                  IF chunk.type = "assistant_message"
                  THEN _start_assistant_message(chunk.content)
                  ELSE _add_to_current_assistant_message(
                           current_assistant_message,
                           AssistantToolCall(chunk.call_id, chunk.name, chunk.arguments))
           /\ stream' = [stream EXCEPT !.resp = Tail(@), !.received = Append(@, chunk)]
    /\ UNCHANGED <<agent, condition, messages, pc, steps, max_steps, finish_reason,
                   completion_condition, invoked, completions, runTurns, runKind, nextId,
                   runs, suspended, error, meta_usage, includes, twin, procVars, histVars>>

\* resp is exhausted: the assistant message is finalized, the pending
\* calls are handled, and the loop ends after its one step
StreamEnd ==
    /\ stream.open
    /\ stream.resp = <<>>
    /\ LET finalized == _finalize_assistant_message(messages, current_assistant_message)
           tool_calls == _convert_function_calls_to_tool_calls(
                             _find_pending_function_calls(finalized))
       IN  \E outcome \in OutcomesOf(tool_calls) :
              LET st == _handle_tool_calls(
                            HandlerState(finalized, agent, invoked, yielded, includes),
                            condition, tool_calls, outcome)
              IN  /\ messages' = st.messages
                  /\ agent' = st.agent
                  /\ invoked' = st.invoked
                  /\ yielded' = st.yielded
                  /\ error' = st.error
    /\ current_assistant_message' = NoMessage
    /\ stream' = [stream EXCEPT !.open = FALSE]
    /\ UNCHANGED <<condition, pc, steps, max_steps, finish_reason, completion_condition,
                   completions, runTurns, runKind, nextId, runs, suspended, meta_usage,
                   includes, twin, procVars, histVars>>

\* the caller stops iterating at a chunk it was given: the generator is
\* closed at its yield, the chunk is not handled, nothing is finalized
Abandon ==
    /\ stream.open
    /\ stream.resp # <<>>
    /\ Head(stream.resp).type \in includes
    /\ yielded' = Append(yielded, Yield(Head(stream.resp)))
    /\ stream' = [stream EXCEPT !.open = FALSE]
    /\ UNCHANGED <<agent, condition, messages, current_assistant_message, pc, steps,
                   max_steps, finish_reason, completion_condition, invoked, completions,
                   runTurns, runKind, nextId, runs, suspended, error, meta_usage, includes,
                   twin, procVars, histVars>>

\* resp raises in place of its next event: the exception leaves _run
UpstreamRaises ==
    /\ stream.open
    /\ stream.resp # <<>>
    /\ error' = "StreamError"
    /\ stream' = [stream EXCEPT !.open = FALSE]
    /\ UNCHANGED <<agent, condition, messages, current_assistant_message, pc, steps,
                   max_steps, finish_reason, completion_condition, invoked, yielded,
                   completions, runTurns, runKind, nextId, runs, suspended, meta_usage,
                   includes, twin, procVars, histVars>>

InitTurn == Init /\ condition["Main"] = "stop"

NextTurn == StartTurn \/ NextChunk \/ StreamEnd \/ Abandon \/ UpstreamRaises

SpecTurn == InitTurn /\ [][NextTurn]_vars

(***************************************************************************)
(* The Runner driven by a caller who passes includes, next to the twin     *)
(* whose caller passes none.                                               *)
(***************************************************************************)
InitIncludes == InitRunner /\ includes \in IncludesValues /\ condition["Main"] = "stop"

\* the caller makes one invocation fewer than MaxRuns
NextIncludes == Next /\ runs' < MaxRuns

SpecIncludes == InitIncludes /\ [][NextIncludes]_vars

(***************************************************************************)
(* Vocabulary of the properties: read off the history and the logs only.   *)
(***************************************************************************)
ToolCallItems(content) == SelectSeq(content, LAMBDA item : item.type = "tool_call")

\* history holds a tool result with this call id
HasResult(msgs, id) ==
    \E i \in 1..Len(msgs) : \E j \in 1..Len(msgs[i].content) :
        msgs[i].content[j].type = "tool_call_result" /\ msgs[i].content[j].call_id = id

\* a message holds a tool result with this call id
ResultIn(message, id) ==
    \E j \in 1..Len(message.content) :
        message.content[j].type = "tool_call_result" /\ message.content[j].call_id = id

\* the index of the most recent assistant turn, 0 if there is none
LastAssistantIndex(msgs) ==
    IF \E i \in 1..Len(msgs) : IsAssistant(msgs[i])
    THEN CHOOSE i \in 1..Len(msgs) :
            IsAssistant(msgs[i]) /\ \A k \in (i + 1)..Len(msgs) : ~IsAssistant(msgs[k])
    ELSE 0

\* the tool calls of the most recent assistant turn, in request order
LatestTurnCalls(msgs) ==
    IF LastAssistantIndex(msgs) = 0 THEN <<>>
    ELSE ToolCallItems(msgs[LastAssistantIndex(msgs)].content)

SeqRange(seq) == {seq[i] : i \in 1..Len(seq)}

CallIds(calls) == {calls[i].call_id : i \in 1..Len(calls)}

\* the entries a step appended to a log
NewEntries(old, new) == {new[i] : i \in (Len(old) + 1)..Len(new)}

(***************************************************************************)
(* C1  _find_pending_function_calls returns exactly the tool calls of the  *)
(* most recent assistant turn that have no tool result with the same call  *)
(* id in history: a call whose result was appended is never returned.      *)
(***************************************************************************)
C1_PendingExact ==
    CallIds(_find_pending_function_calls(messages))
        = {id \in CallIds(LatestTurnCalls(messages)) : ~HasResult(messages, id)}

(***************************************************************************)
(* C2  As stated: in a run started with Runner.run, whatever the agent's   *)
(* configuration, a first completion turn with zero tool calls is the only *)
(* completion call of the run.                                             *)
(***************************************************************************)
C2_OneTurnAnyAgent ==
    (/\ runKind = "run"
     /\ Len(runTurns) >= 1
     /\ runTurns[1].calls = 0
     /\ runTurns[1].message)
        => Len(runTurns) = 1

(***************************************************************************)
(* C2  As amended: in a run started with Runner.run by an agent whose      *)
(* completion condition is "stop", a first completion turn that finalizes  *)
(* an assistant message without tool calls is the only completion call of  *)
(* the run.                                                                *)
(***************************************************************************)
C2_OneTurnUnderStop ==
    (/\ runKind = "run"
     /\ completion_condition = "stop"
     /\ Len(runTurns) >= 1
     /\ runTurns[1].calls = 0
     /\ runTurns[1].message)
        => Len(runTurns) = 1

\* the loop is back at its head after such a first turn, with steps to spare
C2_Witness ==
    /\ runKind = "run"
    /\ completion_condition = "stop"
    /\ pc = "loop"
    /\ Len(runTurns) = 1
    /\ runTurns[1].calls = 0
    /\ runTurns[1].message
    /\ max_steps > 1
    /\ Work(completions, nextId) < MaxWork

\* the tool calls of the assistant message the current turn has finalized
TurnBatch ==
    IF pc = "tools" /\ runTurns # <<>> /\ runTurns[Len(runTurns)].message
    THEN ToolCallItems(messages[Len(messages)].content)
    ELSE <<>>

IsTransfer(name) == name \in {"transfer_to_agent", "transfer_to_parent"}

\* a step invokes each of these calls exactly once
InvokedOnce(ids) ==
    \A id \in ids :
        Cardinality({i \in (Len(invoked) + 1)..Len(invoked') : invoked'[i].call_id = id}) = 1

(***************************************************************************)
(* C3  Under the "stop" condition, when a turn ends with tool calls none   *)
(* of which requires confirmation and fewer than max_steps turns have run, *)
(* the calls are executed (each exactly once when the batch holds no       *)
(* transfer call), a result for every call is appended to that assistant   *)
(* turn, and the next step of the run is a completion call.                *)
(***************************************************************************)
C3_ExecuteThenComplete ==
    [][/\ (/\ completion_condition = "stop"
           /\ TurnBatch # <<>>
           /\ \A c \in SeqRange(TurnBatch) : ~RequireConfirm(c.name)
           /\ steps + 1 < max_steps)
            => (/\ (\A c \in SeqRange(TurnBatch) : ~IsTransfer(c.name))
                      => InvokedOnce(CallIds(TurnBatch))
                /\ Len(messages') = Len(messages)
                /\ \A id \in CallIds(TurnBatch) : ResultIn(messages'[Len(messages)], id)
                /\ pc' = "loop")
       /\ (/\ pc = "loop"
           /\ completion_condition = "stop"
           /\ finish_reason = "tool_calls"
           /\ steps < max_steps)
            => completions' = completions + 1]_vars

(***************************************************************************)
(* C4  One invocation issues at most max_steps completion calls, and once  *)
(* max_steps turns have run the generator ends without raising, also when  *)
(* the last turn executed tool calls.                                      *)
(***************************************************************************)
C4_StepBudget ==
    [][/\ Len(runTurns') <= max_steps'
       /\ (pc = "loop" /\ Len(runTurns) >= max_steps)
            => (pc' = "idle" /\ error' = None /\ completions' = completions)]_vars

\* max_steps turns have run and the last one executed a tool call
C4_Witness ==
    /\ pc = "loop"
    /\ max_steps >= 1
    /\ Len(runTurns) = max_steps
    /\ finish_reason = "tool_calls"
    /\ invoked # <<>>

(***************************************************************************)
(* C5  When a tool call of the turn requires confirmation, _run returns at *)
(* once: no call of the batch is invoked, no tool result is appended and   *)
(* no further event is yielded.                                            *)
(***************************************************************************)
C5_ConfirmationDefersBatch ==
    [][(\E c \in SeqRange(TurnBatch) : c.name = "delete_file")
          => (/\ pc' = "idle"
              /\ suspended'
              /\ messages' = messages
              /\ invoked' = invoked
              /\ yielded' = yielded
              /\ agent' = agent)]_vars

\* a run is suspended on a batch of a call that needs confirmation and one
\* that does not, neither of which has a result
C5_Witness ==
    /\ pc = "idle"
    /\ suspended
    /\ \E c, d \in SeqRange(LatestTurnCalls(messages)) :
          c.name = "delete_file" /\ d.name = "get_weather"
    /\ \A id \in CallIds(LatestTurnCalls(messages)) : ~HasResult(messages, id)
    /\ invoked = <<>>

(***************************************************************************)
(* C6  After a suspension, run_continue_stream invokes each deferred call  *)
(* of the batch exactly once and appends each result to the suspended      *)
(* assistant turn, before any new completion call.                         *)
(***************************************************************************)
C6_ContinueRunsDeferred ==
    [][(pc = "idle" /\ suspended /\ runKind' = "continue")
          => (/\ InvokedOnce(CallIds(LatestTurnCalls(messages)))
              /\ Len(messages') = Len(messages)
              /\ \A id \in CallIds(LatestTurnCalls(messages)) :
                    ResultIn(messages'[LastAssistantIndex(messages)], id)
              /\ completions' = completions)]_vars

(***************************************************************************)
(* C7  When an invoked tool raises, the caller sees no exception: a        *)
(* function_call_output for that call id carrying the exception message is *)
(* emitted, and the other unresolved calls of the batch are invoked too.   *)
(***************************************************************************)
C7_ToolFailureIsData ==
    [][\A e \in NewEntries(invoked, invoked') :
          e.raised
            => (/\ error' = None
                /\ pc' = "loop"
                /\ [type |-> "function_call_output", call_id |-> e.call_id, content |-> e.value]
                      \in NewEntries(yielded, yielded')
                /\ \A id \in CallIds(LatestTurnCalls(messages)) :
                      ~HasResult(messages, id)
                        => \E x \in NewEntries(invoked, invoked') : x.call_id = id)]_vars

\* a call raised and the next invocation is a call of the same turn
C7_Witness ==
    \E i \in 1..(Len(invoked) - 1) :
        /\ invoked[i].raised
        /\ invoked[i].value = "boom"
        /\ \E m \in 1..Len(messages) :
              {invoked[i].call_id, invoked[i + 1].call_id}
                  \subseteq CallIds(ToolCallItems(messages[m].content))
        /\ invoked[i].call_id # invoked[i + 1].call_id

(***************************************************************************)
(* C8  Whenever a completion call is issued, every tool call in history    *)
(* has a tool result with the same call id in history.                     *)
(***************************************************************************)
C8_CallsResolvedAtCompletion ==
    [][completions' = completions + 1
          => \A i \in 1..Len(messages) :
                \A id \in CallIds(ToolCallItems(messages[i].content)) : HasResult(messages, id)]_vars

\* the position of a call in its batch
PositionIn(calls, id) == CHOOSE k \in 1..Len(calls) : calls[k].call_id = id

(***************************************************************************)
(* C9  The calls of a batch are invoked in the order in which the model    *)
(* requested them: of two calls invoked by one step, the one requested     *)
(* first is invoked first.                                                 *)
(***************************************************************************)
C9_RequestOrder ==
    [][\A i, j \in (Len(invoked) + 1)..Len(invoked') :
          (/\ i < j
           /\ {invoked'[i].call_id, invoked'[j].call_id} \subseteq CallIds(LatestTurnCalls(messages)))
            => PositionIn(LatestTurnCalls(messages), invoked'[i].call_id)
                 < PositionIn(LatestTurnCalls(messages), invoked'[j].call_id)]_vars

\* the outputs history holds for a call id
OutputsOf(msgs, id) ==
    UNION {{msgs[i].content[j].output :
                j \in {k \in 1..Len(msgs[i].content) :
                          /\ msgs[i].content[k].type = "tool_call_result"
                          /\ msgs[i].content[k].call_id = id}} :
           i \in 1..Len(msgs)}

\* the transfer calls the handler looks at: those to an agent, else those
\* to the parent
TransfersOf(batch) ==
    IF SelectSeq(batch, LAMBDA c : c.name = "transfer_to_agent") # <<>>
    THEN SelectSeq(batch, LAMBDA c : c.name = "transfer_to_agent")
    ELSE SelectSeq(batch, LAMBDA c : c.name = "transfer_to_parent")

\* the agent a transfer call leads to from agent a
TargetOf(a, c) ==
    IF c.name = "transfer_to_agent"
    THEN IF JsonName(c.arguments) \in SeqRange(handoffs(a)) THEN JsonName(c.arguments) ELSE a
    ELSE IF parent(a) # None THEN parent(a) ELSE a

(***************************************************************************)
(* C10  When a batch holds several transfer calls, the first one requested *)
(* is the one executed and decides the active agent; every later one gets  *)
(* the result "Transfer already executed by previous call".                *)
(***************************************************************************)
C10_FirstTransferWins ==
    [][(Len(TransfersOf(TurnBatch)) >= 2 /\ pc' = "loop")
          => LET transfers == TransfersOf(TurnBatch)
             IN  /\ agent' = TargetOf(agent, transfers[1])
                 /\ "Transfer already executed by previous call"
                        \notin OutputsOf(messages', transfers[1].call_id)
                 /\ \A k \in 2..Len(transfers) :
                        OutputsOf(messages', transfers[k].call_id)
                            = {"Transfer already executed by previous call"}]_vars

\* this step hands the pending calls of the latest assistant turn to
\* Runner._handle_tool_calls: from _run, or from run_continue_stream
HandlesBatch ==
    \/ pc = "tools" /\ pc' = "loop"
    \/ pc = "idle" /\ runKind' = "continue" /\ error' = None

(***************************************************************************)
(* C11  When the batch holds a transfer_to_agent or transfer_to_parent     *)
(* call, no call of the batch other than a transfer call is invoked.       *)
(***************************************************************************)
C11_TransferSkipsOtherCalls ==
    [][(\E c \in SeqRange(LatestTurnCalls(messages)) : IsTransfer(c.name))
          => \A e \in NewEntries(invoked, invoked') : IsTransfer(e.name)]_vars

\* a batch of a tool call and a transfer call has been handled: the
\* transfer is done and the tool call has neither been invoked nor answered
C11_Witness ==
    /\ pc = "loop"
    /\ \E c, d \in SeqRange(LatestTurnCalls(messages)) :
          /\ c.name = "get_weather"
          /\ d.name = "transfer_to_agent"
          /\ ~HasResult(messages, c.call_id)
          /\ HasResult(messages, d.call_id)
          /\ \E i \in 1..Len(invoked) : invoked[i].call_id = d.call_id
          /\ \A i \in 1..Len(invoked) : invoked[i].call_id # c.call_id

\* the transfer can be performed from agent a
Declared(a, c) ==
    \/ c.name = "transfer_to_agent" /\ JsonName(c.arguments) \in SeqRange(handoffs(a))
    \/ c.name = "transfer_to_parent" /\ parent(a) # None

\* the positions of the tool results history holds for a call id
ResultPositions(msgs, id) ==
    UNION {{<<i, j>> : j \in {k \in 1..Len(msgs[i].content) :
                                /\ msgs[i].content[k].type = "tool_call_result"
                                /\ msgs[i].content[k].call_id = id}} :
           i \in 1..Len(msgs)}

\* the number of tool results a step appends for a call id
AppendedResults(id) ==
    Cardinality(ResultPositions(messages', id)) - Cardinality(ResultPositions(messages, id))

\* the last content item of the last message
LastItem(msgs) == msgs[Len(msgs)].content[Len(msgs[Len(msgs)].content)]

ErrorOutputs ==
    {"Target agent not found in handoffs",
     "Current agent has no handoffs configured",
     "Current agent has no parent to transfer back to"}

RECURSIVE Ancestors(_)
Ancestors(a) == IF parent(a) = None THEN {} ELSE {parent(a)} \cup Ancestors(parent(a))

(***************************************************************************)
(* C14  During a run, a transfer_to_agent call whose target is not in the  *)
(* handoffs of the active agent but in those of one of its ancestors       *)
(* succeeds: the target becomes the active agent.                          *)
(***************************************************************************)
C14_SiblingTransfer ==
    [][LET transfers == TransfersOf(LatestTurnCalls(messages))
       IN  (/\ HandlesBatch
            /\ Len(transfers) = 1
            /\ transfers[1].name = "transfer_to_agent"
            /\ JsonName(transfers[1].arguments) \notin SeqRange(handoffs(agent))
            /\ \E b \in Ancestors(agent) : JsonName(transfers[1].arguments) \in SeqRange(handoffs(b)))
              => agent' = JsonName(transfers[1].arguments)]_vars

(***************************************************************************)
(* C15  Under the "call" condition, a finalized turn whose tool calls      *)
(* include wait_for_user is the last completion turn of the run.           *)
(***************************************************************************)
C15_SentinelEndsRun ==
    (completion_condition = "call" /\ pc # "idle")
        => \A i \in 1..Len(runTurns) :
              (runTurns[i].message /\ runTurns[i].sentinel) => i = Len(runTurns)

\* the sentinel call of the turn has been executed and the step budget
\* would allow another turn
C15_Witness ==
    /\ completion_condition = "call"
    /\ pc = "loop"
    /\ runTurns # <<>>
    /\ runTurns[Len(runTurns)].sentinel
    /\ runTurns[Len(runTurns)].message
    /\ steps < max_steps
    /\ Work(completions, nextId) < MaxWork
    /\ \E i \in 1..Len(invoked) : invoked[i].name = "wait_for_user" /\ ~invoked[i].raised

(***************************************************************************)
(* C16  A Runner.run call with user input and max_steps >= 1 issues at     *)
(* least one completion call before it returns, whatever history holds     *)
(* and whatever the completion condition of the agent is.                  *)
(***************************************************************************)
C16_RunIssuesCompletion ==
    [][(runKind = "run" /\ pc = "loop" /\ pc' = "idle") => runTurns # <<>>]_vars

(***************************************************************************)
(* C17  A tool call whose name is not in the registry is skipped: the      *)
(* registry is not invoked for it and no event is emitted for it.          *)
(***************************************************************************)
C17_UnregisteredSkipped ==
    [][\A c \in SeqRange(LatestTurnCalls(messages)) :
          (/\ HandlesBatch
           /\ \A d \in SeqRange(LatestTurnCalls(messages)) : ~IsTransfer(d.name)
           /\ c.name \notin Registered(agent, condition))
            => (/\ \A e \in NewEntries(invoked, invoked') : e.call_id # c.call_id
                /\ \A y \in NewEntries(yielded, yielded') : y.call_id # c.call_id)]_vars

(***************************************************************************)
(* Vocabulary of the stream claims, computed from the fragments fed.       *)
(***************************************************************************)
\* fragment i carries a choice with a delta
HasDelta(i) == fed_chunks[i].choices /\ ~fed_chunks[i].usage

\* the fragment that creates the accumulator: the first one with a delta
\* of role "assistant" (Len + 1 when there is none yet)
InitIndex ==
    LET I == { i \in 1..Len(fed_chunks) : HasDelta(i) /\ fed_chunks[i].role = "assistant" }
    IN  IF I = {} THEN Len(fed_chunks) + 1 ELSE CHOOSE i \in I : \A j \in I : i <= j

\* the fragment that ends the turn: the first one with a finish reason
FinishIndex ==
    LET F == { i \in 1..Len(fed_chunks) : HasDelta(i) /\ fed_chunks[i].finish_reason # None }
    IN  IF F = {} THEN Len(fed_chunks) + 1 ELSE CHOOSE i \in F : \A j \in F : i <= j

\* the text deltas of fragments i..k of the turn, in order, concatenated
RECURSIVE TextDeltas(_, _)
TextDeltas(i, k) ==
    IF i > k THEN ""
    ELSE (IF HasDelta(i) THEN fed_chunks[i].content ELSE "") \o TextDeltas(i + 1, k)

EventsOfType(i, type) == SelectSeq(yielded_events[i], LAMBDA e : e.type = type)

NoError == \A i \in 1..Len(raised_errors) : raised_errors[i] = None

\* C18: once the fragment with the finish reason has been processed, every
\* AssistantMessage event of the turn carries the concatenation, in order,
\* of all the text deltas the turn's fragments carried since the
\* accumulator was created, whether they came before or after tool-call
\* deltas.
C18_MessageTextIsAllDeltas ==
    (FinishIndex = Len(fed_chunks) /\ NoError) =>
        \A i \in 1..Len(fed_chunks) :
            \A n \in 1..Len(EventsOfType(i, "assistant_message")) :
                EventsOfType(i, "assistant_message")[n].text
                    = TextDeltas(InitIndex, FinishIndex)

\* fragment i is one the accumulator takes: it carries a delta and arrives
\* no earlier than the fragment that creates the accumulator
Accumulated(i) == HasDelta(i) /\ i >= InitIndex

\* C19: for every fragment fed, the processor yields exactly one
\* ContentDelta event, carrying exactly the fragment's text delta, when the
\* fragment is taken by the accumulator and its text delta is non-empty,
\* and yields no ContentDelta event otherwise.
C19_OneContentDeltaPerText ==
    \A i \in 1..Len(fed_chunks) :
        EventsOfType(i, "content_delta")
            = IF Accumulated(i) /\ fed_chunks[i].content # ""
              THEN << ContentDeltaEvent(fed_chunks[i].content) >>
              ELSE <<>>

\* the tool-call delta entries of fragments i.. of the stream, in order
RECURSIVE DeltaEntries(_)
DeltaEntries(i) ==
    IF i > Len(fed_chunks) THEN <<>>
    ELSE (IF HasDelta(i) THEN fed_chunks[i].tool_calls ELSE <<>>) \o DeltaEntries(i + 1)

\* where in DeltaEntries(1) the entry stands that opened the call at
\* position p of the accumulated list: the p-th entry with an id
Opener(p) ==
    LET es == DeltaEntries(1)
    IN  CHOOSE n \in 1..Len(es) :
            /\ es[n].id # None
            /\ Cardinality({ k \in 1..n : es[k].id # None }) = p

Str(x) == IF x = None THEN "" ELSE x

\* the argument fragments of the call at position p from entry n on: those
\* of its opening entry and of the later entries without id whose index
\* is its place in the list
RECURSIVE ArgumentFragments(_, _)
ArgumentFragments(p, n) ==
    LET es == DeltaEntries(1)
    IN  IF n > Len(es) THEN ""
        ELSE (IF n = Opener(p) \/ (n > Opener(p) /\ es[n].id = None /\ es[n].index = p - 1)
              THEN Str(es[n].arguments)
              ELSE "") \o ArgumentFragments(p, n + 1)

\* C20: every accumulated tool call has the id and the name of the entry
\* that opened it, and its arguments are the concatenation, in order, of
\* the arguments of that entry and of the later entries without id that
\* refer to its place in the list.
C20_ArgumentsConcatenated ==
    \A p \in 1..Len(_current_message.tool_calls) :
        LET tc == _current_message.tool_calls[p]
            opening == DeltaEntries(1)[Opener(p)]
        IN  /\ tc.id = opening.id
            /\ tc.name = Str(opening.name)
            /\ Str(tc.arguments) = ArgumentFragments(p, 1)

\* call c1 opened with "x", a second call opened after it, then c1
\* continued with "y" by an entry without id for index 0
C20_Witness ==
    /\ Len(_current_message.tool_calls) = 2
    /\ _current_message.tool_calls[1].id = "c1"
    /\ _current_message.tool_calls[1].name = "foo"
    /\ _current_message.tool_calls[1].arguments = "xy"
    /\ _current_message.tool_calls[2].id = "c2"
    /\ fed_chunks[Len(fed_chunks)].tool_calls = << DeltaToolCall(None, "", "y", 0) >>

\* the turn has just ended: the last fragment fed is the first one with a
\* finish reason, and process_chunk raised for none
TurnFinished == FinishIndex = Len(fed_chunks) /\ NoError

\* how many events of a type the fragments i.. yielded
RECURSIVE CountEvents(_, _)
CountEvents(i, type) ==
    IF i > Len(yielded_events) THEN 0
    ELSE Len(EventsOfType(i, type)) + CountEvents(i + 1, type)

\* C21: when the turn has ended, the processor has yielded exactly one
\* AssistantMessage event, and it yielded it for the fragment that carries
\* the finish reason.
C21_MessageOnceAtFinish ==
    TurnFinished =>
        /\ CountEvents(1, "assistant_message") = 1
        /\ Len(EventsOfType(FinishIndex, "assistant_message")) = 1

\* the function_call events yielded so far for call id, in order
RECURSIVE FunctionCallsFor(_, _)
FunctionCallsFor(i, id) ==
    IF i > Len(yielded_events) THEN <<>>
    ELSE SelectSeq(yielded_events[i], LAMBDA e : e.type = "function_call" /\ e.call_id = id)
             \o FunctionCallsFor(i + 1, id)

\* the accumulated calls have ids of their own
DistinctIds(m) ==
    \A p, q \in 1..Len(m.tool_calls) : m.tool_calls[p].id = m.tool_calls[q].id => p = q

\* C22: when the turn has ended, every tool call accumulated in it (the
\* calls having ids of their own) has been yielded as exactly one
\* function_call event, and that event carries the call's name and its
\* complete arguments, whatever the function names of the calls are.
C22_EachCallYieldedOnce ==
    (TurnFinished /\ DistinctIds(_current_message)) =>
        \A p \in 1..Len(_current_message.tool_calls) :
            FunctionCallsFor(1, _current_message.tool_calls[p].id)
                = << FunctionCallOf(_current_message.tool_calls[p]) >>

\* C23: once the fragment with the finish reason has been processed,
\* process_chunk raises for every further fragment and leaves the
\* accumulated message, text and tool calls, as it was.
C23_RejectsAfterFinish ==
    [][(FinishIndex <= Len(fed_chunks) /\ NoError) =>
          /\ raised_errors'[Len(raised_errors')] # None
          /\ _current_message' = _current_message]_vars

\* C30: process_chunk raises for no fragment fed up to and including the
\* one that creates the accumulator; and when that one, fed last, opens a
\* tool call, the accumulator exists afterwards and holds the call.
C30_NoRaiseBeforeInit ==
    \A i \in 1..Len(fed_chunks) :
        i <= InitIndex =>
            /\ raised_errors[i] = None
            /\ (/\ i = InitIndex
                /\ i = Len(fed_chunks)
                /\ fed_chunks[i].tool_calls # <<>>
                /\ fed_chunks[i].tool_calls[1].id # None)
               => /\ is_initialized(_current_message)
                  /\ Len(_current_message.tool_calls) = 1
                  /\ _current_message.tool_calls[1].id = fed_chunks[i].tool_calls[1].id

\* the call ids that stand in history, as tool calls or as tool results
HistoryIds(msgs) ==
    UNION { { msgs[i].content[j].call_id :
                j \in { k \in 1..Len(msgs[i].content) : msgs[i].content[k].type # "text" } } :
            i \in 1..Len(msgs) }

\* the tool results history holds for a call id
ResultCount(msgs, id) ==
    Cardinality(UNION { { <<i, j>> :
                j \in { k \in 1..Len(msgs[i].content) :
                           /\ msgs[i].content[k].type = "tool_call_result"
                           /\ msgs[i].content[k].call_id = id } } :
            i \in 1..Len(msgs) })

(***************************************************************************)
(* C28  Across any sequence of Runner.run and Runner.run_continue_stream   *)
(* calls, no tool call is invoked more than once and history holds at most *)
(* one tool result for every call id.                                      *)
(***************************************************************************)
C28_NoCallInvokedTwice ==
    \A id \in HistoryIds(messages) :
        /\ Cardinality({ i \in 1..Len(invoked) : invoked[i].call_id = id }) <= 1
        /\ ResultCount(messages, id) <= 1

\* meta.usage of the message at index i of history
UsageOf(usage, i) ==
    IF \E u \in usage : u[1] = i THEN (CHOOSE u \in usage : u[1] = i)[2] ELSE None

(***************************************************************************)
(* C29  The token counts of the Usage event of a completion turn are       *)
(* recorded on the assistant message that turn appends to history, and the *)
(* usage of every message that was in history before the turn stays as it  *)
(* was.                                                                    *)
(***************************************************************************)
C29_UsageOnOwnTurn ==
    [][completions' = completions + 1 =>
          /\ Len(messages') > Len(messages)
                => UsageOf(meta_usage', Len(messages')) = Tokens(completions')
          /\ \A i \in 1..Len(messages) :
                UsageOf(meta_usage', i) = UsageOf(meta_usage, i)]_vars

(***************************************************************************)
(* Vocabulary of the history claims.                                       *)
(***************************************************************************)
\* the tool calls and tool results of a history: for every message, in
\* order, its content items that are not text, in order
ToolView(msgs) ==
    [i \in 1..Len(msgs) |-> SelectSeq(msgs[i].content, LAMBDA item : item.type # "text")]

\* an assistant turn with at least one tool call, every call of which has
\* a result in the turn and every result of which answers a call of it
AnsweredTurn(message) ==
    LET calls == { j \in 1..Len(message.content) : message.content[j].type = "tool_call" }
        results == { j \in 1..Len(message.content) : message.content[j].type = "tool_call_result" }
    IN  /\ IsAssistant(message)
        /\ calls # {}
        /\ Cardinality(calls) = Cardinality(results)
        /\ \A j \in calls : \E k \in results : message.content[k].call_id = message.content[j].call_id
        /\ \A k \in results : \E j \in calls : message.content[j].call_id = message.content[k].call_id

(***************************************************************************)
(* C24  When a history that holds an assistant turn with k tool calls and  *)
(* k matching results is converted to its legacy view and the view is      *)
(* appended, entry by entry, to an empty history, the new history holds    *)
(* the same tool calls (id, name, arguments) and tool results (id, output) *)
(* in the same messages and the same order.                                *)
(***************************************************************************)
C24_RoundTrip ==
    (reingested # <<>> /\ \E i \in 1..Len(messages) : AnsweredTurn(messages[i]))
        => ToolView(reingested) = ToolView(messages)

\* the tool calls of a history in order, by id, name and the arguments as
\* str() writes them
RECURSIVE CallsOfHistory(_)
CallsOfHistory(msgs) ==
    IF msgs = <<>> THEN <<>>
    ELSE LET calls == SelectSeq(Head(msgs).content, LAMBDA item : item.type = "tool_call")
         IN  [i \in 1..Len(calls) |->
                 << calls[i].call_id, calls[i].name, str(calls[i].arguments) >>]
             \o CallsOfHistory(Tail(msgs))

\* the tool results of a history in order, by id and output
RECURSIVE ResultsOfHistory(_)
ResultsOfHistory(msgs) ==
    IF msgs = <<>> THEN <<>>
    ELSE LET results == SelectSeq(Head(msgs).content, LAMBDA item : item.type = "tool_call_result")
         IN  [i \in 1..Len(results) |-> << results[i].call_id, results[i].output >>]
             \o ResultsOfHistory(Tail(msgs))

\* the tool calls the assistant entries of the completions format list
RECURSIVE CallsOfEntries(_)
CallsOfEntries(entries) ==
    IF entries = <<>> THEN <<>>
    ELSE [i \in 1..Len(Head(entries).tool_calls) |->
             << Head(entries).tool_calls[i].id, Head(entries).tool_calls[i].name,
                Head(entries).tool_calls[i].arguments >>]
         \o CallsOfEntries(Tail(entries))

\* the tool entries of the completions format
ResultsOfEntries(entries) ==
    LET tools == SelectSeq(entries, LAMBDA e : e.role = "tool")
    IN  [i \in 1..Len(tools) |-> << tools[i].tool_call_id, tools[i].content >>]

(***************************************************************************)
(* C25  The view sent to the model has one assistant entry for each        *)
(* assistant turn, and the tool calls its assistant entries list and its   *)
(* tool entries are all the tool calls and all the tool results of the     *)
(* history, in order: none is dropped, whatever the order of the calls and *)
(* results inside a turn.                                                  *)
(***************************************************************************)
C25_NothingDropped ==
    sent.taken =>
        /\ Len(SelectSeq(sent.entries, LAMBDA e : e.role = "assistant"))
              = Len(SelectSeq(messages, IsAssistant))
        /\ CallsOfEntries(sent.entries) = CallsOfHistory(messages)
        /\ ResultsOfEntries(sent.entries) = ResultsOfHistory(messages)

\* the message the step gives to append_message, and the content item it
\* stands for when it is a tool call or a tool result
Given == append_log'[Len(append_log')]

GivenItem ==
    IF Given.kind = "function_call"
    THEN AssistantToolCall(Given.call_id, Given.name, Given.arguments)
    ELSE AssistantToolCallResult(Given.call_id, Given.output)

IsAppendStep == Len(append_log') = Len(append_log) + 1

C27_UnrecognisedDictRejected ==
    [][(/\ IsAppendStep
        /\ Given.form = "dict"
        /\ Given.kind \notin {"user", "system", "assistant", "function_call",
                              "function_call_output"})
          => /\ append_error' = "ValueError"
             /\ messages' = messages]_vars

\* a dict with role "tool" was refused after two messages were taken
C27_Witness ==
    /\ Len(append_log) = 3
    /\ append_log[3].form = "dict"
    /\ append_log[3].kind = "tool"
    /\ append_error = "ValueError"
    /\ Len(messages) = 2

\* the tool-call delta entries of a fragment that carry arguments text
NonEmptyEntries(chunk) == SelectSeq(chunk.tool_calls, LAMBDA e : Str(e.arguments) # "")

\* C37: for a fragment that process_chunk handles without raising, with
\* calls in the accumulated list afterwards, the function_call_delta events
\* yielded are one per tool-call delta entry of the fragment whose
\* arguments text is non-empty (none for an entry whose arguments are
\* empty or absent), each carrying that entry's arguments text and the id
\* and name of the call that is last in the accumulated list.
C37_DeltaPerNonEmptyEntry ==
    [][LET n == Len(fed_chunks')
       IN  (/\ n = Len(fed_chunks) + 1
            /\ raised_errors'[n] = None
            /\ _current_message'.tool_calls # <<>>)
           => SelectSeq(yielded_events'[n], LAMBDA e : e.type = "function_call_delta")
                 = [k \in 1..Len(NonEmptyEntries(fed_chunks'[n])) |->
                       FunctionCallDeltaEvent(LastCall(_current_message'),
                                              NonEmptyEntries(fed_chunks'[n])[k].arguments)]]_vars

(***************************************************************************)
(* C33  Every termination decision of a run (the test of the while loop of *)
(* _run) is the one the completion condition of the agent that is active   *)
(* at that moment gives: after a handoff inside the run, the condition of  *)
(* the newly active agent decides, not the one of the agent that was       *)
(* active when the run started.                                            *)
(***************************************************************************)
C33_ActiveAgentDecides ==
    [][(pc = "loop") =>
          /\ (pc' = "idle") => ~LoopGuard(condition[agent], finish_reason, messages, steps, max_steps)
          /\ (pc' = "tools") => LoopGuard(condition[agent], finish_reason, messages, steps, max_steps)]_vars

(***************************************************************************)
(* C39  includes only selects the events yielded to the caller: at every   *)
(* moment of a run with includes, history, active agent, the completion    *)
(* calls issued and the tools invoked are those of the run that is given   *)
(* the same input, model and tool behaviour without includes, and the      *)
(* events yielded are those of that run whose type is among includes.      *)
(***************************************************************************)
C39_IncludesOnlyFilters ==
    /\ messages = twin.messages
    /\ agent = twin.agent
    /\ completions = twin.completions
    /\ invoked = twin.invoked
    /\ yielded = SelectSeq(twin.yielded, LAMBDA y : y.type \in includes)

\* a run that has ended after two completion calls and a tool invocation
\* whose output the caller did not ask to see
C39_Witness ==
    /\ pc = "idle"
    /\ "function_call_output" \notin includes
    /\ completions = 2
    /\ Len(invoked) = 1
    /\ invoked[1].name = "get_weather"
    /\ Len(twin.yielded) > Len(yielded)
    /\ \E i \in 1..Len(twin.yielded) : twin.yielded[i].type = "function_call_output"

\* the step is a call of run_continue_stream: an invocation that puts no
\* user message into history
IsContinueStep == pc = "idle" /\ runs' = runs + 1 /\ Len(messages') = Len(messages)

(***************************************************************************)
(* C38  run_continue_stream, called when no tool call of the latest        *)
(* assistant turn lacks its result and history is empty or does not end    *)
(* with an assistant message, raises ValueError, issues no completion      *)
(* call, invokes no tool and leaves history as it was.                     *)
(***************************************************************************)
C38_ContinueWithoutAssistantRaises ==
    [][(/\ IsContinueStep
        /\ \A id \in CallIds(LatestTurnCalls(messages)) : HasResult(messages, id)
        /\ (messages = <<>> \/ ~IsAssistant(messages[Len(messages)])))
          => /\ error' = "ValueError"
             /\ pc' = "idle"
             /\ completions' = completions
             /\ invoked' = invoked
             /\ messages' = messages]_vars

(***************************************************************************)
(* C35  _handle_agent_transfer is total: whatever the argument string of   *)
(* the transfer_to_agent call (an object with a name, an object without,   *)
(* a string that is not JSON, JSON that is not an object), it raises       *)
(* nothing and history holds exactly one tool result for the call's id     *)
(* afterwards.                                                             *)
(***************************************************************************)
C35_TransferHandlerTotal ==
    [][(nextId' = nextId + 1) =>
          /\ error' = None
          /\ ResultCount(messages', nextId) = 1]_vars

(***************************************************************************)
(* C34  When a run has ended and every call of its history is answered,    *)
(* giving the legacy view of the history to set_chat_history with the same *)
(* root agent selects the agent the run ended with: failed transfers,      *)
(* transfers between siblings and several transfer calls in one batch      *)
(* included.                                                               *)
(***************************************************************************)
WireHistory ==
    LET legacy == convert_new_to_legacy(messages)
    IN  [i \in 1..Len(legacy) |-> WireMessage(legacy[i])]

C34_ReplaySelectsLiveAgent ==
    (pc = "idle" /\ runs > 0 /\ \A id \in 1..(nextId - 1) : HasResult(messages, id)) =>
        LET replayed == set_chat_history("Main", WireHistory, "Main")
        IN  replayed.error = None /\ replayed.agent = agent

(***************************************************************************)
(* C36  After set_chat_history the history holds the given messages and    *)
(* nothing else, and the active agent is the one reached from the first    *)
(* agent by applying, in order, every transfer_to_agent and                *)
(* transfer_to_parent call found in the given messages; when every         *)
(* transfer to a declared child is later followed by a transfer to the     *)
(* parent, the first agent is active.                                      *)
(***************************************************************************)
RECURSIVE FlattenParts(_)
FlattenParts(seqs) ==
    IF seqs = <<>> THEN <<>> ELSE Head(seqs) \o FlattenParts(Tail(seqs))

\* the parts of a history, message by message
PartsOfHistory(msgs) ==
    FlattenParts([i \in 1..Len(msgs) |->
        IF msgs[i].role = "assistant"
        THEN [k \in 1..Len(msgs[i].content) |-> msgs[i].content[k].type]
        ELSE << msgs[i].role >>])

\* the parts the given messages hold
PartsOfGiven(given) ==
    FlattenParts([i \in 1..Len(given) |->
        IF given[i].kind = "function_call" THEN << "tool_call" >>
        ELSE IF given[i].kind = "function_call_output" THEN << "tool_call_result" >>
        ELSE IF given[i].kind = "assistant"
        THEN [k \in 1..Len(given[i].items) |-> given[i].items[k].type]
        ELSE << given[i].kind >>])

\* the transfer calls found in the given messages, in order
CallsFound(given) ==
    LET all == FlattenParts([i \in 1..Len(given) |->
                   IF given[i].kind = "function_call"
                   THEN << [name |-> given[i].name, arguments |-> given[i].arguments] >>
                   ELSE LET calls == SelectSeq(given[i].items, LAMBDA item : item.type = "tool_call")
                        IN  [k \in 1..Len(calls) |->
                                [name |-> calls[k].name, arguments |-> calls[k].arguments]]])
    IN  SelectSeq(all, LAMBDA c : c.name \in {"transfer_to_agent", "transfer_to_parent"})

\* one transfer call applied to the agent that is active
ApplyTransfer(current, call) ==
    IF call.name = "transfer_to_parent"
    THEN IF parent(current) # None THEN parent(current) ELSE current
    ELSE IF JsonKind(call.arguments) = "object" /\ JsonName(call.arguments) # None
            /\ _find_agent_by_name(current, JsonName(call.arguments)) # None
    THEN _find_agent_by_name(current, JsonName(call.arguments))
    ELSE current

RECURSIVE ApplyTransfers(_, _)
ApplyTransfers(current, calls) ==
    IF calls = <<>> THEN current
    ELSE ApplyTransfers(ApplyTransfer(current, Head(calls)), Tail(calls))

\* the calls are transfers to declared children of the first agent, each
\* followed by a transfer to the parent
EveryTransferReturned(start, calls) ==
    /\ calls # <<>>
    /\ Len(calls) % 2 = 0
    /\ \A i \in 1..Len(calls) :
          IF i % 2 = 1
          THEN /\ calls[i].name = "transfer_to_agent"
               /\ \E k \in 1..Len(handoffs(start)) :
                     handoffs(start)[k] = JsonName(calls[i].arguments)
          ELSE calls[i].name = "transfer_to_parent"

C36_HistoryReplacedAgentTracked ==
    replay.calls > 0 =>
        /\ error = None
        /\ PartsOfHistory(messages) = PartsOfGiven(replay.given)
        /\ agent = ApplyTransfers(replay.start, CallsFound(replay.given))
        /\ EveryTransferReturned(replay.start, CallsFound(replay.given)) => agent = replay.start

(***************************************************************************)
(* C31  A turn abandoned by the caller, or ended by an exception of the    *)
(* stream, leaves nothing behind for later turns: the assistant message a  *)
(* turn finalizes holds only text and tool calls of events that turn       *)
(* received, and a turn that received none finalizes no message.           *)
(***************************************************************************)
IsStreamEnd == stream.open /\ stream.resp = <<>> /\ ~stream'.open

OnlyFrom(cur, received) ==
    /\ (received = <<>>) => cur = NoMessage
    /\ \A k \in 1..Len(cur.content) :
          LET item == cur.content[k]
          IN  IF item.type = "tool_call"
              THEN \E i \in 1..Len(received) :
                      received[i].type = "function_call" /\ received[i].call_id = item.call_id
              ELSE item.type = "text"
                   /\ (item.text = ""
                       \/ \E i \in 1..Len(received) :
                             /\ received[i].type = "assistant_message"
                             /\ received[i].content = item.text)

C31_NothingCarriedOver ==
    [][IsStreamEnd => OnlyFrom(current_assistant_message, stream.received)]_vars

(***************************************************************************)
(* C32  Every function_call event received during a turn is a tool call    *)
(* of the assistant message the turn finalizes, in whatever order the      *)
(* function_call and assistant_message events arrive and however many      *)
(* assistant_message events there are.                                     *)
(***************************************************************************)
C32_EveryCallFinalized ==
    [][IsStreamEnd =>
          \A i \in 1..Len(stream.received) :
              stream.received[i].type = "function_call" =>
                  \E k \in 1..Len(current_assistant_message.content) :
                      /\ current_assistant_message.content[k].type = "tool_call"
                      /\ current_assistant_message.content[k].call_id
                            = stream.received[i].call_id]_vars

====
